---------------------------- MODULE Spec2Model ----------------------------
(***************************************************************************)
(* A model of the Terraform RAG chatbot core:                              *)
(*   src/rag_loader.py  TerraformRAG  (load, chunk, classify, index,       *)
(*                                     retrieve, assemble context)         *)
(*   src/backend.py     AIBackend     (initialize_chain, generate_response,*)
(*                                     clear_memory)                       *)
(*                                                                         *)
(* Text is modelled character by character: a Python str is a sequence of  *)
(* one-character strings, so that len(), slicing, strip(), the regular     *)
(* expression split and the "in" substring test are computed as the code   *)
(* computes them.  Values on which the code performs no string operation   *)
(* (api keys, model names, questions, generated answers, the refusal text) *)
(* are atomic strings.                                                     *)
(***************************************************************************)
EXTENDS Naturals, Integers, Sequences, FiniteSets, TLC

\* Python's None
None == [none |-> TRUE]

(***************************************************************************)
(* Python str primitives                                                   *)
(***************************************************************************)

\* The characters str.strip() removes and the regular expression \s matches.
Whitespace == {" ", "\n", "\t", "\r"}

UpperCase ==
    <<"A","B","C","D","E","F","G","H","I","J","K","L","M",
      "N","O","P","Q","R","S","T","U","V","W","X","Y","Z">>

LowerCase ==
    <<"a","b","c","d","e","f","g","h","i","j","k","l","m",
      "n","o","p","q","r","s","t","u","v","w","x","y","z">>

\* str.lower() on one character
LowerChar(c) ==
    IF \E i \in 1..Len(UpperCase) : UpperCase[i] = c
    THEN LowerCase[CHOOSE i \in 1..Len(UpperCase) : UpperCase[i] = c]
    ELSE c

\* str.lower()
Lower(s) == [i \in 1..Len(s) |-> LowerChar(s[i])]

\* s[a-1:b] in Python terms: the characters at 1-based positions a..b
Slice(s, a, b) == IF a > b THEN <<>> ELSE SubSeq(s, a, b)

\* index of the first non-whitespace character at or after i, Len(s)+1 if none
RECURSIVE SkipSpaces(_, _)
SkipSpaces(s, i) ==
    IF i <= Len(s) /\ s[i] \in Whitespace THEN SkipSpaces(s, i + 1) ELSE i

\* index of the last non-whitespace character at or before i, 0 if none
RECURSIVE SkipSpacesBack(_, _)
SkipSpacesBack(s, i) ==
    IF i >= 1 /\ s[i] \in Whitespace THEN SkipSpacesBack(s, i - 1) ELSE i

\* str.strip()
Strip(s) == Slice(s, SkipSpaces(s, 1), SkipSpacesBack(s, Len(s)))

\* whether p occurs in s starting at position i
OccursAt(s, p, i) ==
    /\ i >= 1
    /\ i + Len(p) - 1 <= Len(s)
    /\ \A j \in 1..Len(p) : s[i + j - 1] = p[j]

\* str.startswith
StartsWith(s, p) == OccursAt(s, p, 1)

\* str.endswith
EndsWith(s, p) == OccursAt(s, p, Len(s) - Len(p) + 1)

\* the "in" operator on str:  p in s
Contains(s, p) == \E i \in 1..(Len(s) - Len(p) + 1) : OccursAt(s, p, i)

\* sep.join(parts)
RECURSIVE Join(_, _)
Join(sep, parts) ==
    IF parts = <<>> THEN <<>>
    ELSE IF Len(parts) = 1 THEN parts[1]
    ELSE parts[1] \o sep \o Join(sep, Tail(parts))

DigitChars == <<"0","1","2","3","4","5","6","7","8","9">>

\* str(n) for a natural number, as an f-string renders it
RECURSIVE Decimal(_)
Decimal(n) ==
    IF n < 10 THEN <<DigitChars[n + 1]>>
    ELSE Decimal(n \div 10) \o <<DigitChars[(n % 10) + 1]>>

(***************************************************************************)
(* TerraformRAG._terraform_aware_split                                     *)
(***************************************************************************)

\* The keyword alternation of block_pattern, in the pattern's order.
BlockKeywords ==
    << <<"r","e","s","o","u","r","c","e">>,
       <<"d","a","t","a">>,
       <<"v","a","r","i","a","b","l","e">>,
       <<"o","u","t","p","u","t">>,
       <<"p","r","o","v","i","d","e","r">>,
       <<"t","e","r","r","a","f","o","r","m">>,
       <<"l","o","c","a","l","s">>,
       <<"m","o","d","u","l","e">> >>

TerraformKeyword == <<"t","e","r","r","a","f","o","r","m">>

\* index of the first '"' at or after i, Len(s)+1 if none: the end of [^"]*
RECURSIVE SkipToQuote(_, _)
SkipToQuote(s, i) ==
    IF i <= Len(s) /\ s[i] # "\"" THEN SkipToQuote(s, i + 1) ELSE i

\* a if a is a match (non-zero), b otherwise
OrElse(a, b) == IF a # 0 THEN a ELSE b

\* \s* \{  from position i: the position of the '{', 0 when there is none
MatchBrace(s, b) == IF b <= Len(s) /\ s[b] = "{" THEN b ELSE 0

\* [^"]* " \s* \{  where q2 is the position the label's text ends before
MatchLabelEnd(s, q2) ==
    IF q2 > Len(s) THEN 0 ELSE MatchBrace(s, SkipSpaces(s, q2 + 1))

\* " [^"]* " \s* \{  expected at position q1
MatchLabel(s, q1) ==
    IF q1 <= Len(s) /\ s[q1] = "\"" THEN MatchLabelEnd(s, SkipToQuote(s, q1 + 1)) ELSE 0

\* First alternative of block_pattern tried at position i with keyword kw:
\*   kw \s* " [^"]* " \s* {
\* The position of the closing '{' when it matches, 0 otherwise.
MatchLabelled(s, i, kw) ==
    IF OccursAt(s, kw, i) THEN MatchLabel(s, SkipSpaces(s, i + Len(kw))) ELSE 0

\* the first alternative with the keywords from the k-th on, tried in order
RECURSIVE MatchKeywords(_, _, _)
MatchKeywords(s, i, k) ==
    IF k > Len(BlockKeywords) THEN 0
    ELSE OrElse(MatchLabelled(s, i, BlockKeywords[k]), MatchKeywords(s, i, k + 1))

\* Second alternative of block_pattern tried at position i:  terraform \s* {
MatchBareTerraform(s, i) ==
    IF OccursAt(s, TerraformKeyword, i)
    THEN MatchBrace(s, SkipSpaces(s, i + Len(TerraformKeyword)))
    ELSE 0

\* block_pattern tried at position i: the position of the last character of the
\* match, 0 when there is none.  The alternatives are tried in order.
MatchBlockPattern(s, i) == OrElse(MatchKeywords(s, i, 1), MatchBareTerraform(s, i))

\* re.match(block_pattern, s): a match anchored at the start of s
ReMatchBlockPattern(s) == MatchBlockPattern(s, 1) # 0

\* the least element of a set of positions, 0 for the empty set
MinOrZero(S) == IF S = {} THEN 0 ELSE CHOOSE j \in S : \A h \in S : j <= h

\* the leftmost position at or after i where block_pattern matches, 0 if none
NextMatch(s, i) == MinOrZero({j \in i..Len(s) : MatchBlockPattern(s, j) # 0})

\* re.split(f'({block_pattern})', content), for the text from position from on:
\* the matches are found left to right without overlap.  block_pattern is itself a
\* capturing group and is wrapped in a second one, so every match contributes
\* the text of both groups to the result.  ReSplitAt continues with the next
\* match at positions i..e (i = 0: no further match).
RECURSIVE ReSplitFrom(_, _)
ReSplitAt(s, from, i, e) ==
    IF i = 0 THEN << Slice(s, from, Len(s)) >>
    ELSE << Slice(s, from, i - 1), Slice(s, i, e), Slice(s, i, e) >> \o ReSplitFrom(s, e + 1)

ReSplitMatch(s, from, i) ==
    ReSplitAt(s, from, i, IF i = 0 THEN 0 ELSE MatchBlockPattern(s, i))

ReSplitFrom(s, from) == ReSplitMatch(s, from, NextMatch(s, from))

ReSplit(s) == ReSplitFrom(s, 1)

\* The minimum chunk size of the clean-up loop.
MinChunkLen == 50

\* the largest power of two below n, from the power p on
RECURSIVE PowerBelow(_, _)
PowerBelow(p, n) == IF 2 * p < n THEN PowerBelow(2 * p, n) ELSE p

\* chunk_size * 0.7 is a product of doubles.  The double 0.7 is less than
\* 7/10 by 0.4 * 2^-53, so the exact product is less than 7 * chunk_size / 10
\* by 0.4 * chunk_size * 2^-53.  Where 7 * chunk_size / 10 is a whole number
\* the product is rounded to the double below it when that difference is more
\* than half the distance between the doubles below it; elsewhere the rounding
\* does not change the comparison with a length.
ProductRoundsDown(chunk_size) ==
    /\ chunk_size > 0
    /\ chunk_size % 10 = 0
    /\ 4 * chunk_size > 10 * PowerBelow(1, (7 * chunk_size) \div 10)

\* len(current_chunk) > chunk_size * 0.7
ExceedsBoundaryFill(current_chunk, chunk_size) ==
    IF ProductRoundsDown(chunk_size)
    THEN Len(current_chunk) * 10 >= chunk_size * 7
    ELSE Len(current_chunk) * 10 > chunk_size * 7

\* chunks.append(stripped) guarded by "if stripped"
AppendNonEmpty(chunks, stripped) ==
    IF stripped # <<>> THEN Append(chunks, stripped) ELSE chunks

\* chunks.append(current_chunk.strip()) guarded by "if current_chunk.strip()"
AppendStripped(chunks, current_chunk) == AppendNonEmpty(chunks, Strip(current_chunk))

\* current_chunk[-chunk_overlap:] if len(current_chunk) > chunk_overlap else current_chunk
OverlapText(current_chunk, chunk_overlap) ==
    IF Len(current_chunk) > chunk_overlap
    THEN IF chunk_overlap = 0
         THEN current_chunk                  \* s[-0:] is s[0:], the whole string
         ELSE Slice(current_chunk, Len(current_chunk) - chunk_overlap + 1, Len(current_chunk))
    ELSE current_chunk

\* the branch for a block header
SplitHeader(st, block, chunk_size) ==
    IF ExceedsBoundaryFill(st.current_chunk, chunk_size)
    THEN [current_chunk |-> block,
          chunks |-> AppendStripped(st.chunks, st.current_chunk)]
    ELSE [st EXCEPT !.current_chunk = st.current_chunk \o block]

\* the branch for regular content
SplitContent(st, block, chunk_size, chunk_overlap) ==
    IF Len(st.current_chunk) + Len(block) > chunk_size
    THEN [current_chunk |-> OverlapText(st.current_chunk, chunk_overlap) \o block,
          chunks |-> AppendStripped(st.chunks, st.current_chunk)]
    ELSE [st EXCEPT !.current_chunk = st.current_chunk \o block]

\* the iteration on block takes the branch for regular content, finds the chunk
\* full and appends it: "if len(potential_chunk) > chunk_size: if
\* current_chunk.strip(): chunks.append(current_chunk.strip())"
IsSizeFlush(st, block, chunk_size) ==
    /\ Strip(block) # <<>>
    /\ ~ReMatchBlockPattern(Strip(block))
    /\ Len(st.current_chunk) + Len(block) > chunk_size
    /\ Strip(st.current_chunk) # <<>>

\* the body of the loop once block.strip() is known
SplitStripped(st, block, stripped, chunk_size, chunk_overlap) ==
    IF stripped = <<>> THEN st
    ELSE IF ReMatchBlockPattern(stripped) THEN SplitHeader(st, block, chunk_size)
    ELSE SplitContent(st, block, chunk_size, chunk_overlap)

\* One iteration of "for i, block in enumerate(blocks)" on the loop state
\* st = [current_chunk, chunks].
SplitStep(st, block, chunk_size, chunk_overlap) ==
    SplitStripped(st, block, Strip(block), chunk_size, chunk_overlap)

\* the loop over blocks[i..], from loop state st
RECURSIVE SplitLoop(_, _, _, _, _)
SplitLoop(st, blocks, i, chunk_size, chunk_overlap) ==
    IF i > Len(blocks) THEN st
    ELSE SplitLoop(SplitStep(st, blocks[i], chunk_size, chunk_overlap),
                   blocks, i + 1, chunk_size, chunk_overlap)

\* the clean-up loop: keeps the chunks with len(chunk) > 50
RECURSIVE CleanChunks(_)
CleanChunks(chunks) ==
    IF chunks = <<>> THEN <<>>
    ELSE IF Head(chunks) # <<>> /\ Len(Head(chunks)) > MinChunkLen
    THEN <<Head(chunks)>> \o CleanChunks(Tail(chunks))
    ELSE CleanChunks(Tail(chunks))

\* a variant of CleanedOrWhole without the fallback to the whole text
CleanedOnly(cleaned_chunks, content) == cleaned_chunks

\* "return cleaned_chunks if cleaned_chunks else [content]"
CleanedOrWhole(cleaned_chunks, content) ==
    IF cleaned_chunks # <<>> THEN cleaned_chunks ELSE <<content>>

\* what follows the loop: append the remaining chunk, clean up, return
SplitFinish(st, content) ==
    CleanedOrWhole(CleanChunks(AppendStripped(st.chunks, st.current_chunk)), content)

SplitInitState == [current_chunk |-> <<>>, chunks |-> <<>>]

TerraformAwareSplit(content, chunk_size, chunk_overlap) ==
    SplitFinish(SplitLoop(SplitInitState, ReSplit(content), 1, chunk_size, chunk_overlap),
                content)

(***************************************************************************)
(* TerraformRAG._identify_chunk_type                                       *)
(***************************************************************************)

KwResource ==
    <<"r","e","s","o","u","r","c","e">>

KwData ==
    <<"d","a","t","a">>

KwVariable ==
    <<"v","a","r","i","a","b","l","e">>

KwOutput ==
    <<"o","u","t","p","u","t">>

KwProvider ==
    <<"p","r","o","v","i","d","e","r">>

KwTerraform ==
    <<"t","e","r","r","a","f","o","r","m">>

KwModule ==
    <<"m","o","d","u","l","e">>

KwLocals ==
    <<"l","o","c","a","l","s">>

KindResource ==
    <<"r","e","s","o","u","r","c","e">>

KindDataSource ==
    <<"d","a","t","a","_","s","o","u","r","c","e">>

KindVariable ==
    <<"v","a","r","i","a","b","l","e">>

KindOutput ==
    <<"o","u","t","p","u","t">>

KindProvider ==
    <<"p","r","o","v","i","d","e","r">>

KindTerraformConfig ==
    <<"t","e","r","r","a","f","o","r","m","_","c","o","n","f","i","g">>

KindModule ==
    <<"m","o","d","u","l","e">>

KindLocals ==
    <<"l","o","c","a","l","s">>

KindGeneral ==
    <<"g","e","n","e","r","a","l">>

\* the if/elif chain on chunk.lower().strip()
ClassifyLower(chunk_lower) ==
    IF StartsWith(chunk_lower, KwResource) THEN KindResource
    ELSE IF StartsWith(chunk_lower, KwData) THEN KindDataSource
    ELSE IF StartsWith(chunk_lower, KwVariable) THEN KindVariable
    ELSE IF StartsWith(chunk_lower, KwOutput) THEN KindOutput
    ELSE IF StartsWith(chunk_lower, KwProvider) THEN KindProvider
    ELSE IF StartsWith(chunk_lower, KwTerraform) THEN KindTerraformConfig
    ELSE IF StartsWith(chunk_lower, KwModule) THEN KindModule
    ELSE IF StartsWith(chunk_lower, KwLocals) THEN KindLocals
    ELSE KindGeneral

\* _identify_chunk_type: chunk_lower = chunk.lower().strip()
IdentifyChunkType(chunk) == ClassifyLower(Strip(Lower(chunk)))

(***************************************************************************)
(* TerraformRAG: the loader object and load_terraform_files                *)
(*                                                                         *)
(* A directory snapshot is what the file system shows during one call:     *)
(*   [exists, tf_files, pdf_files], the two lists in glob order;           *)
(*   a .tf file is [name, readable, content],                              *)
(*   a .pdf file is [name, readable, pages].                               *)
(* A Document is [page_content, metadata], metadata a dict (a function     *)
(* from key to value).                                                     *)
(***************************************************************************)

TerraformDir ==
    <<"t","e","r","r","a","f","o","r","m","_","f","i","l","e","s">>

\* the errors the operations raise
ErrDirNotFound == "ValueError: Terraform directory not found"
ErrNoFiles == "ValueError: No .tf or .pdf files found"
ErrNoDocuments == "ValueError: No documents to create vector store"
ErrNotInitialized == "ValueError: Vector store not initialized. Call create_vector_store first."
ErrEmbedding == "embedding capability failure"
ErrGenerator == "generation capability failure"
NoError == "no error"

\* TerraformRAG.__init__
NewTerraformRAG == [vector_store |-> None, documents |-> <<>>, embeddings |-> None]

\* dict.get(key, default)
Get(metadata, key, default) == IF key \in DOMAIN metadata THEN metadata[key] ELSE default

\* {**metadata, **extra}
Merge(metadata, extra) ==
    [k \in DOMAIN metadata \cup DOMAIN extra |->
        IF k \in DOMAIN extra THEN extra[k] ELSE metadata[k]]

\* str(tf_file) for a file of the directory
FilePath(name) == TerraformDir \o <<"/">> \o name

\* the loop "for tf_file in tf_files": an unreadable file is reported and skipped
RECURSIVE LoadTfFiles(_)
LoadTfFiles(tf_files) ==
    IF tf_files = <<>> THEN <<>>
    ELSE LET f == Head(tf_files)
         IN  (IF f.readable
              THEN << [page_content |-> f.content,
                       metadata |-> [source |-> f.name,
                                     path |-> FilePath(f.name),
                                     file_type |-> "terraform"]] >>
              ELSE <<>>)
             \o LoadTfFiles(Tail(tf_files))

\* PyPDFLoader.load() followed by the metadata loop: one Document per page
PdfPageDocs(f) ==
    [i \in 1..Len(f.pages) |->
        [page_content |-> f.pages[i],
         metadata |-> [source |-> f.name,
                       path |-> FilePath(f.name),
                       file_type |-> "pdf",
                       page |-> i - 1]]]

\* the loop "for pdf_file in pdf_files": skipped when PyPDFLoader is None or
\* when loading raises
RECURSIVE LoadPdfFiles(_, _)
LoadPdfFiles(pdf_files, pdf_loader_ok) ==
    IF pdf_files = <<>> THEN <<>>
    ELSE LET f == Head(pdf_files)
         IN  (IF pdf_loader_ok /\ f.readable THEN PdfPageDocs(f) ELSE <<>>)
             \o LoadPdfFiles(Tail(pdf_files), pdf_loader_ok)

\* the documents assigned to self.documents when neither check raises
LoadedDocuments(dir, pdf_loader_ok) ==
    LoadTfFiles(dir.tf_files) \o LoadPdfFiles(dir.pdf_files, pdf_loader_ok)

\* a variant of StoreDocuments that adds the loaded documents to the set the
\* loader already holds
StoreDocumentsAppend(rag, documents) ==
    [error |-> NoError, documents |-> documents,
     rag |-> [rag EXCEPT !.documents = @ \o documents]]

\* "self.documents = documents; return documents"
StoreDocuments(rag, documents) ==
    [error |-> NoError, documents |-> documents,
     rag |-> [rag EXCEPT !.documents = documents]]

\* a variant of LoadTerraformFiles without the check for supported files
LoadTerraformFilesUnchecked(rag, dir, pdf_loader_ok) ==
    IF ~dir.exists
    THEN [error |-> ErrDirNotFound, documents |-> <<>>, rag |-> rag]
    ELSE StoreDocuments(rag, LoadedDocuments(dir, pdf_loader_ok))

\* load_terraform_files on loader rag with the directory showing dir:
\* [error, documents (the returned list), rag (the loader afterwards)]
LoadTerraformFiles(rag, dir, pdf_loader_ok) ==
    IF ~dir.exists
    THEN [error |-> ErrDirNotFound, documents |-> <<>>, rag |-> rag]
    ELSE IF dir.tf_files = <<>> /\ dir.pdf_files = <<>>
    THEN [error |-> ErrNoFiles, documents |-> <<>>, rag |-> rag]
    ELSE StoreDocuments(rag, LoadedDocuments(dir, pdf_loader_ok))

(***************************************************************************)
(* TerraformRAG.split_documents                                            *)
(***************************************************************************)

\* the defaults of split_documents, used by create_vector_store
DefaultChunkSize == 1000
DefaultChunkOverlap == 100

TfSuffix ==
    <<".","t","f">>

\* RecursiveCharacterTextSplitter(...).split_text(text) of the text-splitter
\* library, for a text no longer than chunk_size: the pieces are merged back
\* into one chunk, stripped, and an empty chunk is dropped.  Longer texts are
\* outside the model (no CASE arm).
RecursiveSplitText(text, chunk_size, chunk_overlap) ==
    CASE Len(text) <= chunk_size ->
        IF Strip(text) = <<>> THEN <<>> ELSE << Strip(text) >>

\* the chunks of one document: Terraform-aware for .tf files, standard otherwise
DocumentChunks(doc, chunk_size, chunk_overlap) ==
    IF /\ Get(doc.metadata, "file_type", "terraform") = "terraform"
       /\ EndsWith(Get(doc.metadata, "source", <<>>), TfSuffix)
    THEN TerraformAwareSplit(doc.page_content, chunk_size, chunk_overlap)
    ELSE RecursiveSplitText(doc.page_content, chunk_size, chunk_overlap)

\* a variant of ChunkDocs that numbers the chunks of a document from 1
ChunkDocsFromOne(doc, chunks) ==
    [i \in 1..Len(chunks) |->
        [page_content |-> chunks[i],
         metadata |-> Merge(doc.metadata,
                            [chunk |-> i,
                             chunk_type |-> IdentifyChunkType(chunks[i])])]]

\* "for i, chunk in enumerate(chunks)": one split Document per chunk
ChunkDocs(doc, chunks) ==
    [i \in 1..Len(chunks) |->
        [page_content |-> chunks[i],
         metadata |-> Merge(doc.metadata,
                            [chunk |-> i - 1,
                             chunk_type |-> IdentifyChunkType(chunks[i])])]]

\* "for doc in self.documents"
RECURSIVE SplitAll(_, _, _)
SplitAll(documents, chunk_size, chunk_overlap) ==
    IF documents = <<>> THEN <<>>
    ELSE ChunkDocs(Head(documents),
                   DocumentChunks(Head(documents), chunk_size, chunk_overlap))
         \o SplitAll(Tail(documents), chunk_size, chunk_overlap)

\* split_documents after "if not self.documents: self.load_terraform_files()",
\* loaded being what that did
SplitLoaded(loaded, chunk_size, chunk_overlap) ==
    IF loaded.error # NoError
    THEN [error |-> loaded.error, split_docs |-> <<>>, rag |-> loaded.rag]
    ELSE [error |-> NoError,
          split_docs |-> SplitAll(loaded.rag.documents, chunk_size, chunk_overlap),
          rag |-> loaded.rag]

\* split_documents: loads first when the document set is empty
\* [error, split_docs, rag]
SplitDocuments(rag, dir, pdf_loader_ok, chunk_size, chunk_overlap) ==
    SplitLoaded(IF rag.documents = <<>>
                THEN LoadTerraformFiles(rag, dir, pdf_loader_ok)
                ELSE [error |-> NoError, documents |-> rag.documents, rag |-> rag],
                chunk_size, chunk_overlap)

(***************************************************************************)
(* TerraformRAG.create_vector_store, get_retriever, retrieve_context       *)
(***************************************************************************)

\* GoogleGenerativeAIEmbeddings(model=..., google_api_key=...)
NewEmbeddings(google_api_key) == [google_api_key |-> google_api_key]

\* FAISS.from_documents(split_docs, embeddings): the index holds the fragments
NewVectorStore(split_docs) == [docs |-> split_docs]

\* create_vector_store from "self.embeddings = ..." on: rag already holds the
\* embeddings object
BuildIndex(rag, split_docs, embed_ok) ==
    IF ~embed_ok
    THEN [error |-> ErrEmbedding, rag |-> rag, embed_calls |-> 1]
    ELSE [error |-> NoError,
          rag |-> [rag EXCEPT !.vector_store = NewVectorStore(split_docs)],
          embed_calls |-> 1]

\* a variant of CreateFromSplit without the check for an empty fragment list
CreateFromSplitUnchecked(split, google_api_key, embed_ok) ==
    IF split.error # NoError
    THEN [error |-> split.error, rag |-> split.rag, embed_calls |-> 0]
    ELSE BuildIndex([split.rag EXCEPT !.embeddings = NewEmbeddings(google_api_key)],
                    split.split_docs, embed_ok)

\* create_vector_store after "split_docs = self.split_documents()"
CreateFromSplit(split, google_api_key, embed_ok) ==
    IF split.error # NoError
    THEN [error |-> split.error, rag |-> split.rag, embed_calls |-> 0]
    ELSE IF split.split_docs = <<>>
    THEN [error |-> ErrNoDocuments, rag |-> split.rag, embed_calls |-> 0]
    ELSE BuildIndex([split.rag EXCEPT !.embeddings = NewEmbeddings(google_api_key)],
                    split.split_docs, embed_ok)

\* create_vector_store with the directory showing dir and the embedding
\* capability answering (embed_ok) or failing:
\* [error, rag, embed_calls (how often the embedding capability was invoked)]
CreateVectorStore(rag, google_api_key, dir, pdf_loader_ok, embed_ok) ==
    CreateFromSplit(SplitDocuments(rag, dir, pdf_loader_ok,
                                   DefaultChunkSize, DefaultChunkOverlap),
                    google_api_key, embed_ok)

\* get_retriever: [error, retriever]
GetRetriever(rag, k) ==
    IF rag.vector_store = None
    THEN [error |-> ErrNotInitialized, retriever |-> None]
    ELSE [error |-> NoError, retriever |-> [vector_store |-> rag.vector_store, k |-> k]]

Sentinel ==
    <<"N","o"," ","r","e","l","e","v","a","n","t"," ","T","e","r","r","a","f","o","r","m",
      " ","c","o","n","f","i","g","u","r","a","t","i","o","n"," ","f","o","u","n","d"," ",
      "f","o","r"," ","t","h","i","s"," ","q","u","e","r","y",".">>

ContextSeparator ==
    <<"\n","\n","-","-","-","\n","\n">>

RetrievedPrefix ==
    <<"R","e","t","r","i","e","v","e","d"," ">>

RetrievedSuffix ==
    <<" ","r","e","l","e","v","a","n","t"," ","d","o","c","u","m","e","n","t","(","s",")",
      " ","f","r","o","m"," ","T","e","r","r","a","f","o","r","m"," ","f","i","l","e","s",
      " ","a","n","d"," ","d","o","c","u","m","e","n","t","a","t","i","o","n",":","\n","\n">>

\* a variant of ContextHeader that leaves out the page of a PDF fragment
ContextHeaderNoPage(doc) ==
    IF doc.metadata.file_type = "pdf"
    THEN <<"[","F","r","o","m"," ">> \o doc.metadata.source \o <<" ","(","P","D","F",")","]">>
    ELSE <<"[","F","r","o","m"," ">> \o doc.metadata.source \o <<" ","-"," ">>
         \o doc.metadata.chunk_type \o <<"]">>

\* the header of one retrieved fragment
ContextHeader(doc) ==
    LET source == Get(doc.metadata, "source", <<"u","n","k","n","o","w","n">>)
        file_type == Get(doc.metadata, "file_type", "unknown")
        chunk_type == Get(doc.metadata, "chunk_type", KindGeneral)
    IN  IF file_type = "pdf" /\ "page" \in DOMAIN doc.metadata
        THEN <<"[","F","r","o","m"," ">> \o source
             \o <<" ","(","P","D","F",")"," ","-"," ","P","a","g","e"," ">>
             \o Decimal(doc.metadata["page"]) \o <<"]">>
        ELSE IF file_type = "pdf"
        THEN <<"[","F","r","o","m"," ">> \o source \o <<" ","(","P","D","F",")","]">>
        ELSE <<"[","F","r","o","m"," ">> \o source \o <<" ","-"," ">> \o chunk_type \o <<"]">>

\* context_parts: f"{header}\n{doc.page_content}" for each retrieved document
ContextParts(relevant_docs) ==
    [i \in 1..Len(relevant_docs) |->
        ContextHeader(relevant_docs[i]) \o <<"\n">> \o relevant_docs[i].page_content]

\* the string retrieve_context returns for the retrieved documents
AssembleContext(relevant_docs) ==
    IF relevant_docs = <<>> THEN Sentinel
    ELSE RetrievedPrefix \o Decimal(Len(relevant_docs)) \o RetrievedSuffix
         \o Join(ContextSeparator, ContextParts(relevant_docs))

\* What retriever.invoke(query) may do on an index: fail (the query is embedded
\* on every call), or return at most k fragments of the index, most similar
\* first.  An answer is [ok, docs].
RetrieverAnswers(vector_store, k) ==
    LET n == Len(vector_store.docs)
        m == IF k < n THEN k ELSE n
        picks == UNION {[1..len -> 1..n] : len \in 0..m}
    IN  {[ok |-> FALSE, docs |-> <<>>]}
        \cup {[ok |-> TRUE, docs |-> [i \in DOMAIN p |-> vector_store.docs[p[i]]]] :
                p \in {q \in picks : \A i, j \in DOMAIN q : i # j => q[i] # q[j]}}

\* a variant of RetrieveContext without the check for a built index
RetrieveContextUnchecked(rag, query, k, answer) ==
    IF ~answer.ok
    THEN [error |-> ErrEmbedding, context |-> <<>>, embed_calls |-> 1]
    ELSE [error |-> NoError, context |-> AssembleContext(answer.docs), embed_calls |-> 1]

\* retrieve_context given the retriever's answer:
\* [error, context, embed_calls]
RetrieveContext(rag, query, k, answer) ==
    IF rag.vector_store = None
    THEN [error |-> ErrNotInitialized, context |-> <<>>, embed_calls |-> 0]
    ELSE IF ~answer.ok
    THEN [error |-> ErrEmbedding, context |-> <<>>, embed_calls |-> 1]
    ELSE [error |-> NoError, context |-> AssembleContext(answer.docs), embed_calls |-> 1]

(***************************************************************************)
(* TerraformRAG.get_resources_summary and get_resource_details             *)
(*                                                                         *)
(* The regular expressions are matched as re matches them: a match is      *)
(* tried at every position from left to right, a failed match moves on by  *)
(* one character, a successful one continues behind its last character.    *)
(* A match is named by the position of its last character, 0 for no match. *)
(***************************************************************************)

\* \s+ at position i: the position behind the whitespace, 0 when there is none
MatchSpaces(s, i) ==
    IF i >= 1 /\ i <= Len(s) /\ s[i] \in Whitespace THEN SkipSpaces(s, i) ELSE 0

\* [^"]+" behind an opening quote at q, where e is the position of the next quote
QuotedEnd(s, q, e) == IF e <= Len(s) /\ e > q + 1 THEN e ELSE 0

\* "([^"]+)" expected at position q (q = 0: what precedes did not match)
MatchQuoted(s, q) ==
    IF q >= 1 /\ q <= Len(s) /\ s[q] = "\""
    THEN QuotedEnd(s, q, SkipToQuote(s, q + 1))
    ELSE 0

\* kw\s+"([^"]+)" tried at position i, for the keywords resource, variable,
\* output and provider
MatchNamed(s, i, kw) ==
    IF OccursAt(s, kw, i) THEN MatchQuoted(s, MatchSpaces(s, i + Len(kw))) ELSE 0

\* the group ([^"]+) of a label that closes at e, its opening quote following
\* the whitespace behind position p
LabelText(s, p, e) == Slice(s, SkipSpaces(s, p + 1) + 1, e - 1)

\* the leftmost match of kw\s+"([^"]+)" at or after from
NextNamed(s, kw, from) == MinOrZero({j \in from..Len(s) : MatchNamed(s, j, kw) # 0})

\* re.findall(r'kw\s+"([^"]+)"', s) from position from on: the names
RECURSIVE FindAllNamed(_, _, _)
FindNamedAt(s, kw, i) ==
    IF i = 0 THEN <<>>
    ELSE << LabelText(s, i + Len(kw) - 1, MatchNamed(s, i, kw)) >>
         \o FindAllNamed(s, kw, MatchNamed(s, i, kw) + 1)

FindAllNamed(s, kw, from) == FindNamedAt(s, kw, NextNamed(s, kw, from))

\* \s+"([^"]+)" behind a first label that closes at e1
SecondLabel(s, e1) == IF e1 = 0 THEN 0 ELSE MatchQuoted(s, MatchSpaces(s, e1 + 1))

\* resource\s+"([^"]+)"\s+"([^"]+)" tried at position i
MatchResource(s, i) == SecondLabel(s, MatchNamed(s, i, KwResource))

NextResource(s, from) == MinOrZero({j \in from..Len(s) : MatchResource(s, j) # 0})

\* the groups (res_type, res_name) of the match at position i
ResourceGroups(s, i) ==
    [res_type |-> LabelText(s, i + Len(KwResource) - 1, MatchNamed(s, i, KwResource)),
     res_name |-> LabelText(s, MatchNamed(s, i, KwResource), MatchResource(s, i))]

\* re.findall(r'resource\s+"([^"]+)"\s+"([^"]+)"', s) from position from on
RECURSIVE FindAllResources(_, _)
FindResourceAt(s, i) ==
    IF i = 0 THEN <<>>
    ELSE << ResourceGroups(s, i) >> \o FindAllResources(s, MatchResource(s, i) + 1)

FindAllResources(s, from) == FindResourceAt(s, NextResource(s, from))

\* "if res_type not in summary['resource_types']: ... = []" and the append
AddResource(resource_types, m) ==
    IF m.res_type \in DOMAIN resource_types
    THEN [resource_types EXCEPT ![m.res_type] = Append(@, m.res_name)]
    ELSE resource_types @@ (m.res_type :> << m.res_name >>)

\* "for res_type, res_name in resource_matches"
RECURSIVE AddResources(_, _)
AddResources(resource_types, resource_matches) ==
    IF resource_matches = <<>> THEN resource_types
    ELSE AddResources(AddResource(resource_types, Head(resource_matches)),
                      Tail(resource_matches))

\* the summary before the loop; resource_types is a dict, here a function
NewSummary(documents) ==
    [total_files |-> Len(documents), resource_types |-> <<>>,
     variables |-> <<>>, outputs |-> <<>>, providers |-> <<>>]

\* the body of "for doc in self.documents"
SummaryDoc(summary, content) ==
    [total_files |-> summary.total_files,
     resource_types |-> AddResources(summary.resource_types, FindAllResources(content, 1)),
     variables |-> summary.variables \o FindAllNamed(content, KwVariable, 1),
     outputs |-> summary.outputs \o FindAllNamed(content, KwOutput, 1),
     providers |-> summary.providers \o FindAllNamed(content, KwProvider, 1)]

RECURSIVE SummaryLoop(_, _)
SummaryLoop(summary, documents) ==
    IF documents = <<>> THEN summary
    ELSE SummaryLoop(SummaryDoc(summary, Head(documents).page_content), Tail(documents))

\* set(names)
SetOf(names) == {names[i] : i \in 1..Len(names)}

\* list(S) for a set S: its elements, each once, in one of the orders a set
\* may be iterated in
ListsOf(S) ==
    {q \in [1..Cardinality(S) -> S] : \A x \in S : \E i \in 1..Cardinality(S) : q[i] = x}

\* a variant of Deduplicated that returns the three lists as collected
WithDuplicates(summary) == {summary}

\* "Remove duplicates": the summaries list(set(...)) may produce
Deduplicated(summary) ==
    {[total_files |-> summary.total_files, resource_types |-> summary.resource_types,
      variables |-> v, outputs |-> o, providers |-> p] :
        v \in ListsOf(SetOf(summary.variables)),
        o \in ListsOf(SetOf(summary.outputs)),
        p \in ListsOf(SetOf(summary.providers))}

\* get_resources_summary: the summaries it may return
GetResourcesSummary(rag) ==
    Deduplicated(SummaryLoop(NewSummary(rag.documents), rag.documents))

\* index of the first '}' at or after i, Len(s)+1 if none: the end of [^}]+
RECURSIVE SkipToClose(_, _)
SkipToClose(s, i) ==
    IF i <= Len(s) /\ s[i] # "}" THEN SkipToClose(s, i + 1) ELSE i

\* ([^}]+)\} behind an opening brace at b, where c is the position of the next '}'
BodyEnd(s, b, c) == IF c <= Len(s) /\ c > b + 1 THEN c ELSE 0

\* \{([^}]+)\} with the opening brace at b (b = 0: what precedes did not match)
MatchBody(s, b) == IF b = 0 THEN 0 ELSE BodyEnd(s, b, SkipToClose(s, b + 1))

\* \s*\{ behind a second label that closes at e2
OpenBrace(s, e2) == IF e2 = 0 THEN 0 ELSE MatchBrace(s, SkipSpaces(s, e2 + 1))

\* resource_pattern tried at position i:
\*   resource\s+"([^"]+)"\s+"([^"]+)"\s*\{([^}]+)\}
MatchResourceBlock(s, i) == MatchBody(s, OpenBrace(s, MatchResource(s, i)))

NextResourceBlock(s, from) ==
    MinOrZero({j \in from..Len(s) : MatchResourceBlock(s, j) # 0})

\* match.groups() of the match at position i: res_type, res_name, res_body
BlockGroups(s, i) ==
    [res_type |-> ResourceGroups(s, i).res_type,
     res_name |-> ResourceGroups(s, i).res_name,
     res_body |-> Slice(s, OpenBrace(s, MatchResource(s, i)) + 1,
                        MatchResourceBlock(s, i) - 1)]

\* re.finditer(resource_pattern, s, re.DOTALL) from position from on
RECURSIVE FindAllBlocks(_, _)
FindBlockAt(s, i) ==
    IF i = 0 THEN <<>>
    ELSE << BlockGroups(s, i) >> \o FindAllBlocks(s, MatchResourceBlock(s, i) + 1)

FindAllBlocks(s, from) == FindBlockAt(s, NextResourceBlock(s, from))

\* \w, for the characters of the texts
WordChars ==
    {LowerCase[i] : i \in DOMAIN LowerCase} \cup {UpperCase[i] : i \in DOMAIN UpperCase}
        \cup {DigitChars[i] : i \in DOMAIN DigitChars} \cup {"_"}

\* index of the first character that is not \w at or after i
RECURSIVE SkipWord(_, _)
SkipWord(s, i) ==
    IF i <= Len(s) /\ s[i] \in WordChars THEN SkipWord(s, i + 1) ELSE i

\* = expected at position a
EqualsAt(s, a) == IF a <= Len(s) /\ s[a] = "=" THEN a ELSE 0

\* (\w+)\s*= tried at position i
MatchProperty(s, i) ==
    IF i <= Len(s) /\ s[i] \in WordChars
    THEN EqualsAt(s, SkipSpaces(s, SkipWord(s, i)))
    ELSE 0

NextProperty(s, from) == MinOrZero({j \in from..Len(s) : MatchProperty(s, j) # 0})

\* re.findall(r'(\w+)\s*=', res_body) from position from on
RECURSIVE FindAllProperties(_, _)
FindPropertyAt(s, i) ==
    IF i = 0 THEN <<>>
    ELSE << Slice(s, i, SkipWord(s, i) - 1) >> \o FindAllProperties(s, MatchProperty(s, i) + 1)

FindAllProperties(s, from) == FindPropertyAt(s, NextProperty(s, from))

\* The argument resource_type: Optional[str] = None, as [is_none, str].
NoResourceType == [is_none |-> TRUE, str |-> <<>>]
ResourceType(str) == [is_none |-> FALSE, str |-> str]

\* "if resource_type and res_type != resource_type: continue"
IsFilteredOut(resource_type, res_type) ==
    /\ ~resource_type.is_none
    /\ resource_type.str # <<>>
    /\ res_type # resource_type.str

\* key = f"{res_type}/{res_name}"
DetailKey(m) == m.res_type \o <<"/">> \o m.res_name

\* "if key not in details: details[key] = {...}"
WithDetail(details, key, m, source) ==
    IF key \in DOMAIN details THEN details
    ELSE details @@ (key :> [type |-> m.res_type, name |-> m.res_name,
                             source_file |-> source, properties |-> <<>>])

\* a variant of AddDetail that keeps only the properties of the last block
AddDetailReplacing(details, m, source) ==
    [WithDetail(details, DetailKey(m), m, source)
        EXCEPT ![DetailKey(m)].properties = FindAllProperties(m.res_body, 1)]

\* the body of "for match in matches" for a match that is not filtered out
AddDetail(details, m, source) ==
    [WithDetail(details, DetailKey(m), m, source)
        EXCEPT ![DetailKey(m)].properties = @ \o FindAllProperties(m.res_body, 1)]

\* "for match in matches"
RECURSIVE DetailMatches(_, _, _, _)
DetailMatches(details, matches, source, resource_type) ==
    IF matches = <<>> THEN details
    ELSE DetailMatches(IF IsFilteredOut(resource_type, Head(matches).res_type)
                       THEN details
                       ELSE AddDetail(details, Head(matches), source),
                       Tail(matches), source, resource_type)

\* "for doc in self.documents"
RECURSIVE DetailLoop(_, _, _)
DetailLoop(details, documents, resource_type) ==
    IF documents = <<>> THEN details
    ELSE DetailLoop(DetailMatches(details, FindAllBlocks(Head(documents).page_content, 1),
                                  Get(Head(documents).metadata, "source",
                                      <<"u","n","k","n","o","w","n">>),
                                  resource_type),
                    Tail(documents), resource_type)

\* get_resource_details: details is a dict, here a function
GetResourceDetails(rag, resource_type) == DetailLoop(<<>>, rag.documents, resource_type)

\* a variant of CallResourcesSummary that takes the documents off the loader
CallResourcesSummaryDraining(rag) ==
    {[summary |-> summary, rag |-> [rag EXCEPT !.documents = <<>>]] :
        summary \in GetResourcesSummary(rag)}

\* a call of get_resources_summary on loader rag: what it may return and the
\* loader afterwards; the function assigns to no attribute of self and changes
\* no Document
CallResourcesSummary(rag) ==
    {[summary |-> summary, rag |-> rag] : summary \in GetResourcesSummary(rag)}

\* a call of get_resource_details on loader rag, likewise
CallResourceDetails(rag, resource_type) ==
    [details |-> GetResourceDetails(rag, resource_type), rag |-> rag]

(***************************************************************************)
(* AIBackend                                                               *)
(***************************************************************************)

ErrLLMInit == "Exception: Failed to initialize LLM"
ErrChainNotInitialized ==
    "Exception: Conversation chain not initialized. Please provide API key and settings."
ErrRagNotInitialized ==
    "Exception: RAG system not initialized. Cannot generate response without Terraform context."
ErrRetrieveFailed == "Exception: Failed to retrieve context from Terraform files"

\* the fixed refusal of generate_response
RefusalText ==
    "I cannot answer this question as it is not covered in the provided Terraform files. Please ask about resources and configurations defined in your GCP Terraform files."

\* the substring generate_response looks for in the context
NoRelevantPhrase ==
    <<"N","o"," ","r","e","l","e","v","a","n","t"," ","T","e","r","r","a","f","o","r","m",
      " ","c","o","n","f","i","g","u","r","a","t","i","o","n"," ","f","o","u","n","d">>

\* the defaults of AIBackend.__init__: temperature in tenths (0.7), max tokens
InitialTemperature == 7
InitialMaxTokens == 500

\* the k generate_response passes to retrieve_context
BackendK == 6

\* AIBackend.__init__; memory is the ConversationBufferMemory's record list
NewBackend ==
    [conversation_chain |-> None,
     rag_chain |-> None,
     memory |-> <<>>,
     current_api_key |-> None,
     current_model |-> None,
     current_temperature |-> InitialTemperature,
     current_max_tokens |-> InitialMaxTokens,
     terraform_rag |-> None,
     use_rag |-> TRUE]

\* ChatGoogleGenerativeAI(model, temperature, max_output_tokens, google_api_key)
NewLLM(api_key, model_name, temperature, max_tokens) ==
    [model |-> model_name, temperature |-> temperature,
     max_output_tokens |-> max_tokens, google_api_key |-> api_key]

\* a variant of NeedsInit that looks at the conversation chain only
NeedsInitChainOnly(b, api_key, model_name, temperature, max_tokens) ==
    b.conversation_chain = None

\* the condition under which initialize_chain (re)initializes
NeedsInit(b, api_key, model_name, temperature, max_tokens) ==
    \/ b.conversation_chain = None
    \/ b.current_api_key # api_key
    \/ b.current_model # model_name
    \/ b.current_temperature # temperature
    \/ b.current_max_tokens # max_tokens

\* The inner try of initialize_chain once create_vector_store has run on the
\* fresh TerraformRAG (built is what it did): the fresh loader has replaced the
\* current one; the RAG chain is created when nothing failed, and any failure
\* sets use_rag to False.
\* [backend, embed_calls]
FinishRag(b, llm, rag_chain_ok, built) ==
    [backend |-> IF built.error # NoError \/ ~rag_chain_ok
                 THEN [b EXCEPT !.terraform_rag = built.rag, !.use_rag = FALSE]
                 ELSE [b EXCEPT !.terraform_rag = built.rag, !.rag_chain = [llm |-> llm]],
     embed_calls |-> built.embed_calls]

\* The inner try of initialize_chain; b already holds the new conversation chain.
InitRag(b, api_key, llm, env) ==
    FinishRag(b, llm, env.rag_chain_ok,
              CreateVectorStore(NewTerraformRAG, api_key, env.dir, env.pdf_loader,
                                env.embed_ok))

\* "Store current configuration", r being what the inner try did
StoreConfig(r, api_key, model_name, temperature, max_tokens) ==
    [error |-> NoError,
     backend |-> [r.backend EXCEPT !.current_api_key = api_key,
                                   !.current_model = model_name,
                                   !.current_temperature = temperature,
                                   !.current_max_tokens = max_tokens],
     embed_calls |-> r.embed_calls,
     rag_created |-> TRUE]

\* the outer try of initialize_chain once the LLM object llm exists
InitWithLLM(b, api_key, model_name, temperature, max_tokens, env, llm) ==
    StoreConfig(InitRag([b EXCEPT !.conversation_chain = [llm |-> llm]], api_key, llm, env),
                api_key, model_name, temperature, max_tokens)

\* initialize_chain in environment env = [llm_ok, dir, pdf_loader, embed_ok,
\* rag_chain_ok]: [error, backend, embed_calls, rag_created]
InitializeChain(b, api_key, model_name, temperature, max_tokens, env) ==
    IF ~NeedsInit(b, api_key, model_name, temperature, max_tokens)
    THEN [error |-> NoError, backend |-> b, embed_calls |-> 0, rag_created |-> FALSE]
    ELSE IF ~env.llm_ok
    THEN [error |-> ErrLLMInit, backend |-> b, embed_calls |-> 0, rag_created |-> FALSE]
    ELSE InitWithLLM(b, api_key, model_name, temperature, max_tokens, env,
                     NewLLM(api_key, model_name, temperature, max_tokens))

\* a variant of RagAvailable that ignores the use_rag flag
RagAvailableNoFlag(b) ==
    b.terraform_rag # None /\ b.rag_chain # None

\* "self.use_rag and self.terraform_rag and self.rag_chain"
RagAvailable(b) ==
    b.use_rag /\ b.terraform_rag # None /\ b.rag_chain # None

\* the retriever returned no list: it was not reached, or it raised
NotRetrieved == [ok |-> FALSE, docs |-> <<>>]

\* a variant of IsNoContext that compares the context with the phrase
IsNoContextExact(context) == context = NoRelevantPhrase

\* the check on the retrieved context that selects the refusal
IsNoContext(context) == Contains(context, NoRelevantPhrase)

\* what generate_response hands back when it raises
Raised(b, error, cause, retrieved, context, rag_runs) ==
    [error |-> error, cause |-> cause, response |-> "", backend |-> b,
     retrieved |-> retrieved, context |-> context, rag_runs |-> rag_runs, conv_runs |-> 0]

\* a variant of Returned that returns the response without saving it
ReturnedUnsaved(b, user_input, response, retrieved, context, rag_runs) ==
    [error |-> NoError, cause |-> NoError, response |-> response, backend |-> b,
     retrieved |-> retrieved, context |-> context, rag_runs |-> rag_runs, conv_runs |-> 0]

\* "self.memory.save_context(...); return response"
Returned(b, user_input, response, retrieved, context, rag_runs) ==
    [error |-> NoError, cause |-> NoError, response |-> response,
     backend |-> [b EXCEPT !.memory =
                     Append(@, [input |-> user_input, output |-> response])],
     retrieved |-> retrieved, context |-> context, rag_runs |-> rag_runs, conv_runs |-> 0]

\* "response = self.rag_chain.run(context=context, question=user_input)":
\* the generator is invoked with run and answers gen = [ok, text]
RunRagChain(b, user_input, retrieved, gen, run) ==
    IF ~gen.ok
    THEN Raised(b, ErrRetrieveFailed, ErrGenerator, retrieved, run.context, <<run>>)
    ELSE Returned(b, user_input, gen.text, retrieved, run.context, <<run>>)

\* the try block of generate_response after retrieve_context (got is what it did)
AnswerFromContext(b, user_input, answer, gen, got) ==
    IF got.error # NoError
    THEN Raised(b, ErrRetrieveFailed, got.error, NotRetrieved, <<>>, <<>>)
    ELSE IF IsNoContext(got.context)
    THEN Returned(b, user_input, RefusalText, answer, got.context, <<>>)
    ELSE RunRagChain(b, user_input, answer, gen,
                     [context |-> got.context, question |-> user_input])

\* The try block of generate_response, given the retriever's answer and what
\* the generator does when invoked (gen = [ok, text]).
\* retrieved is the retriever's answer (NotRetrieved when it returned nothing
\* because it was not reached or failed), rag_runs lists the (context, question)
\* pairs rag_chain.run was invoked with, conv_runs counts the invocations of
\* conversation_chain.
GenerateGrounded(b, user_input, answer, gen) ==
    AnswerFromContext(b, user_input, answer, gen,
                      RetrieveContext(b.terraform_rag, user_input, BackendK, answer))

\* generate_response
GenerateResponse(b, user_input, answer, gen) ==
    IF b.conversation_chain = None
    THEN Raised(b, ErrChainNotInitialized, NoError, NotRetrieved, <<>>, <<>>)
    ELSE IF ~RagAvailable(b)
    THEN Raised(b, ErrRagNotInitialized, NoError, NotRetrieved, <<>>, <<>>)
    ELSE GenerateGrounded(b, user_input, answer, gen)

\* clear_memory
ClearMemory(b) == [b EXCEPT !.memory = <<>>, !.conversation_chain = None]

(***************************************************************************)
(* State                                                                   *)
(***************************************************************************)

VARIABLES
    backend,    \* the AIBackend object
    rag,        \* a TerraformRAG object used directly
    rag_built,  \* history: create_vector_store has completed on rag
    pdf_loader, \* whether the import of PyPDFLoader succeeded (fixed per run)
    split,      \* one run of _terraform_aware_split, step by step
    messages,   \* st.session_state.messages of the app
    last        \* the last operation: its inputs and what it did

vars == <<backend, rag, rag_built, pdf_loader, split, messages, last>>

(***************************************************************************)
(* The environment: files, directory snapshots, inputs                     *)
(***************************************************************************)

MainTfName ==
    <<"m","a","i","n",".","t","f">>

MainTfContent ==
    <<"r","e","s","o","u","r","c","e"," ","\"","a","_","t","y","p","e","\""," ","\"","x",
      "\""," ","{"," ","p","r","o","p","1"," ","="," ","1"," ","}">>

NotesTfName ==
    <<"n","o","t","e","s",".","t","f">>

NotesTfContent ==
    <<"#"," ","N","o"," ","r","e","l","e","v","a","n","t"," ","T","e","r","r","a","f","o",
      "r","m"," ","c","o","n","f","i","g","u","r","a","t","i","o","n"," ","f","o","u","n",
      "d">>

BadTfName ==
    <<"b","a","d",".","t","f">>

GuidePdfName ==
    <<"g","u","i","d","e",".","p","d","f">>

GuidePage0 ==
    <<"T","e","r","r","a","f","o","r","m"," ","o","n"," ","G","C","P">>

GuidePage1 ==
    <<" ","\n">>

BadPdfName ==
    <<"b","a","d",".","p","d","f">>

BlankPdfName ==
    <<"b","l","a","n","k",".","p","d","f">>

\* the files a directory may hold; bad.tf and bad.pdf cannot be read, guide.pdf
\* has a blank second page, blank.pdf has only a blank page
MainTf == [name |-> MainTfName, readable |-> TRUE, content |-> MainTfContent]
NotesTf == [name |-> NotesTfName, readable |-> TRUE, content |-> NotesTfContent]
BadTf == [name |-> BadTfName, readable |-> FALSE, content |-> <<>>]
GuidePdf == [name |-> GuidePdfName, readable |-> TRUE, pages |-> <<GuidePage0, GuidePage1>>]
BlankPdf == [name |-> BlankPdfName, readable |-> TRUE, pages |-> <<GuidePage1>>]
BadPdf == [name |-> BadPdfName, readable |-> FALSE, pages |-> <<>>]

Dir(tf_files, pdf_files) ==
    [exists |-> TRUE, tf_files |-> tf_files, pdf_files |-> pdf_files]

MissingDir == [exists |-> FALSE, tf_files |-> <<>>, pdf_files |-> <<>>]

\* what the directory may show during a call on the loader
Directories ==
    { MissingDir,
      Dir(<<>>, <<>>),
      Dir(<<BadTf>>, <<>>),
      Dir(<<BadTf>>, <<BadPdf>>),
      Dir(<<MainTf, BadTf>>, <<>>),
      Dir(<<MainTf, NotesTf>>, <<GuidePdf>>),
      Dir(<<>>, <<GuidePdf, BadPdf>>),
      Dir(<<>>, <<BlankPdf>>) }

ApiKeys == { <<"k","1">>, <<"k","2">> }
ModelNames == { <<"g","e","m","i","n","i">> }
Temperatures == {InitialTemperature}
MaxTokenValues == {InitialMaxTokens}
Questions == {"what resources are defined?"}
GeneratorOutputs ==
    {[ok |-> FALSE, text |-> ""], [ok |-> TRUE, text |-> "generated answer"]}

\* what the directory terraform_files may show to the backend
BackendDirectories ==
    { MissingDir, Dir(<<BadTf>>, <<>>), Dir(<<MainTf, NotesTf>>, <<>>) }

\* the environment of one initialize_chain call
InitEnvs ==
    [llm_ok : BOOLEAN, dir : BackendDirectories, pdf_loader : {pdf_loader},
     embed_ok : BOOLEAN, rag_chain_ok : BOOLEAN]

\* the most records the conversation memory holds in the model
MaxMemory == 2

\* size_flushed is history: the fragments appended by the size-driven flush
SplitIdle ==
    [pc |-> "idle", content |-> <<>>, chunk_size |-> 0, chunk_overlap |-> 0,
     blocks |-> <<>>, i |-> 0, st |-> SplitInitState, result |-> <<>>,
     size_flushed |-> {}]

Init ==
    /\ backend = NewBackend
    /\ rag = NewTerraformRAG
    /\ rag_built = FALSE
    /\ pdf_loader = TRUE
    /\ messages = <<>>
    /\ split = SplitIdle
    /\ last = [op |-> "none", error |-> NoError]

(***************************************************************************)
(* Spec: the backend's operations in any order                             *)
(***************************************************************************)

\* the answers the retriever may give to this backend
BackendRetrieverAnswers(b) ==
    IF b.terraform_rag # None /\ b.terraform_rag.vector_store # None
    THEN RetrieverAnswers(b.terraform_rag.vector_store, BackendK)
    ELSE {[ok |-> FALSE, docs |-> <<>>]}

DoInitializeChain ==
    \E api_key \in ApiKeys, model_name \in ModelNames,
       temperature \in Temperatures, max_tokens \in MaxTokenValues, env \in InitEnvs :
        \E r \in {InitializeChain(backend, api_key, model_name, temperature, max_tokens, env)} :
            /\ backend' = r.backend
            /\ last' = [op |-> "initialize_chain", error |-> r.error,
                        embed_calls |-> r.embed_calls, rag_created |-> r.rag_created,
                        needed |-> NeedsInit(backend, api_key, model_name,
                                             temperature, max_tokens),
                        build_ok |-> /\ env.llm_ok /\ env.embed_ok /\ env.rag_chain_ok
                                     /\ LoadedDocuments(env.dir, env.pdf_loader) # <<>>]
            /\ UNCHANGED <<rag, rag_built, pdf_loader, split, messages>>

DoGenerateResponse ==
    /\ Len(backend.memory) < MaxMemory
    /\ \E user_input \in Questions, answer \in BackendRetrieverAnswers(backend),
          gen \in GeneratorOutputs :
        \E r \in {GenerateResponse(backend, user_input, answer, gen)} :
            /\ backend' = r.backend
            /\ last' = [op |-> "generate_response", error |-> r.error, cause |-> r.cause,
                        response |-> r.response, user_input |-> user_input,
                        retrieved |-> r.retrieved, context |-> r.context,
                        rag_runs |-> r.rag_runs, conv_runs |-> r.conv_runs,
                        gen |-> gen]
            /\ UNCHANGED <<rag, rag_built, pdf_loader, split, messages>>

DoClearMemory ==
    /\ backend' = ClearMemory(backend)
    /\ last' = [op |-> "clear_memory", error |-> NoError]
    /\ UNCHANGED <<rag, rag_built, pdf_loader, split, messages>>

Next == DoInitializeChain \/ DoGenerateResponse \/ DoClearMemory

Spec == Init /\ [][Next]_vars

(***************************************************************************)
(* SpecApp: the script of app.py, one handled event (a submit or a clear)  *)
(* per step, on the session's message list and backend                     *)
(***************************************************************************)

\* the message shown when no API key is set
ErrNoApiKey == "Please set your GOOGLE_API_KEY environment variable to continue."

\* is_ready
IsReady(b) == b.conversation_chain # None

\* one entry of st.session_state.messages
Message(role, content) == [role |-> role, content |-> content]

\* a variant of PopUser that leaves the list as it is
PopUserNever(msgs) == msgs

\* the except block of the submit handler: the last message is removed when
\* its role is "user"
PopUser(msgs) ==
    IF msgs # <<>> /\ msgs[Len(msgs)].role = "user"
    THEN SubSeq(msgs, 1, Len(msgs) - 1)
    ELSE msgs

\* "if not st.session_state.backend.is_ready(): initialize_chain(...)"
EnsureInitialized(b, api_key, model_name, temperature, max_tokens, env) ==
    IF IsReady(b)
    THEN [error |-> NoError, backend |-> b, embed_calls |-> 0, rag_created |-> FALSE]
    ELSE InitializeChain(b, api_key, model_name, temperature, max_tokens, env)

\* what one submit did: the error shown ("no error" when none), the stage that
\* failed, and the session state it left
SubmitResult(error, stage, b, msgs) ==
    [error |-> error, stage |-> stage, backend |-> b, messages |-> msgs]

\* the submit handler once the user message is in msgs, g being what
\* generate_response did: the assistant message is appended, or the except
\* block runs
SubmitAnswered(msgs, g) ==
    IF g.error # NoError
    THEN SubmitResult(g.error, "generate", g.backend, PopUser(msgs))
    ELSE SubmitResult(NoError, "done", g.backend,
                      Append(msgs, Message("assistant", g.response)))

\* the try block of the submit handler, init being what the initialization
\* step did
SubmitInitialized(msgs, init, user_input, answer, gen) ==
    IF init.error # NoError
    THEN SubmitResult(init.error, "initialize", init.backend, PopUser(msgs))
    ELSE SubmitAnswered(Append(msgs, Message("user", user_input)),
                        GenerateResponse(init.backend, user_input, answer, gen))

\* "if not api_key: show_error(...)": nothing else happens
SubmitNoKey(b, msgs) == SubmitResult(ErrNoApiKey, "api_key", b, msgs)

\* the session state after a submit, and what the submit did
AppSubmitted(r, user_input) ==
    /\ backend' = r.backend
    /\ messages' = r.messages
    /\ last' = [op |-> "submit", error |-> r.error, stage |-> r.stage,
                user_input |-> user_input]
    /\ UNCHANGED <<rag, rag_built, pdf_loader, split>>

\* "if submit_button and user_input" with no API key
AppSubmitNoKey ==
    \E user_input \in Questions :
        AppSubmitted(SubmitNoKey(backend, messages), user_input)

\* "if submit_button and user_input" with an API key
AppSubmit ==
    /\ Len(backend.memory) < MaxMemory
    /\ \E api_key \in ApiKeys, model_name \in ModelNames,
          temperature \in Temperatures, max_tokens \in MaxTokenValues,
          env \in InitEnvs, user_input \in Questions, gen \in GeneratorOutputs :
        \E init \in {EnsureInitialized(backend, api_key, model_name, temperature,
                                       max_tokens, env)} :
            \E answer \in BackendRetrieverAnswers(init.backend) :
                AppSubmitted(SubmitInitialized(messages, init, user_input, answer, gen),
                             user_input)

\* "if clear_clicked": clear_memory, then the message list is emptied
AppClear ==
    /\ backend' = ClearMemory(backend)
    /\ messages' = <<>>
    /\ last' = [op |-> "clear", error |-> NoError]
    /\ UNCHANGED <<rag, rag_built, pdf_loader, split>>

\* initialize_session_state: an empty message list and a new AIBackend
InitApp ==
    /\ backend = NewBackend
    /\ rag = NewTerraformRAG
    /\ rag_built = FALSE
    /\ pdf_loader = TRUE
    /\ split = SplitIdle
    /\ messages = <<>>
    /\ last = [op |-> "none", error |-> NoError]

NextApp == AppSubmit \/ AppSubmitNoKey \/ AppClear

SpecApp == InitApp /\ [][NextApp]_vars

(***************************************************************************)
(* SpecConfig: initialize_chain and clear_memory in any order, with        *)
(* configurations that differ from a base one in one parameter             *)
(***************************************************************************)

BaseConfig ==
    [api_key |-> <<"k","1">>, model_name |-> <<"g","e","m","i","n","i">>,
     temperature |-> InitialTemperature, max_tokens |-> InitialMaxTokens]

Configs ==
    { BaseConfig,
      [BaseConfig EXCEPT !.api_key = <<"k","2">>],
      [BaseConfig EXCEPT !.model_name = <<"p","r","o">>],
      [BaseConfig EXCEPT !.temperature = 10],
      [BaseConfig EXCEPT !.max_tokens = 1000] }

\* what the directory terraform_files may show during these calls
ConfigEnvs ==
    [llm_ok : BOOLEAN, dir : {Dir(<<MainTf>>, <<>>)},
     pdf_loader : {pdf_loader}, embed_ok : BOOLEAN, rag_chain_ok : {TRUE}]

\* the configuration the backend has stored
StoredConfig(b) ==
    [api_key |-> b.current_api_key, model_name |-> b.current_model,
     temperature |-> b.current_temperature, max_tokens |-> b.current_max_tokens]

\* initialize_chain(config.api_key, config.model_name, config.temperature,
\* config.max_tokens)
InitializeChainWith(b, config, env) ==
    InitializeChain(b, config.api_key, config.model_name, config.temperature,
                    config.max_tokens, env)

ConfigInitializeChain ==
    \E config \in Configs, env \in ConfigEnvs :
        \E r \in {InitializeChainWith(backend, config, env)} :
            /\ backend' = r.backend
            /\ last' = [op |-> "initialize_chain", error |-> r.error,
                        embed_calls |-> r.embed_calls, rag_created |-> r.rag_created,
                        config |-> config, env |-> env,
                        same |-> IsReady(backend) /\ StoredConfig(backend) = config]
            /\ UNCHANGED <<rag, rag_built, pdf_loader, split, messages>>

NextConfig == ConfigInitializeChain \/ DoClearMemory

SpecConfig == Init /\ [][NextConfig]_vars

(***************************************************************************)
(* SpecRag: the operations of a TerraformRAG object used directly, in any  *)
(* order, the directory showing any of Directories during each call        *)
(***************************************************************************)

RagApiKey == <<"k","1">>
RetrieverKs == {1, 6}
ChunkOverlaps == {0, DefaultChunkOverlap}

\* the answers the retriever may give on loader r (none without an index)
LoaderRetrieverAnswers(r, k) ==
    IF r.vector_store # None
    THEN RetrieverAnswers(r.vector_store, k)
    ELSE {[ok |-> FALSE, docs |-> <<>>]}

InitRagSpec ==
    /\ backend = NewBackend
    /\ rag = NewTerraformRAG
    /\ rag_built = FALSE
    /\ pdf_loader \in BOOLEAN
    /\ messages = <<>>
    /\ split = SplitIdle
    /\ last = [op |-> "none", error |-> NoError]

RagLoad ==
    \E dir \in Directories :
        \E r \in {LoadTerraformFiles(rag, dir, pdf_loader)} :
            /\ rag' = r.rag
            /\ last' = [op |-> "load_terraform_files", error |-> r.error,
                        documents |-> r.documents, dir |-> dir]
            /\ UNCHANGED <<backend, rag_built, pdf_loader, split, messages>>

RagSplit ==
    \E dir \in Directories, chunk_overlap \in ChunkOverlaps :
        \E r \in {SplitDocuments(rag, dir, pdf_loader, DefaultChunkSize, chunk_overlap)} :
            /\ rag' = r.rag
            /\ last' = [op |-> "split_documents", error |-> r.error,
                        split_docs |-> r.split_docs]
            /\ UNCHANGED <<backend, rag_built, pdf_loader, split, messages>>

RagCreate ==
    \E dir \in Directories, embed_ok \in BOOLEAN :
        \E s \in {SplitDocuments(rag, dir, pdf_loader, DefaultChunkSize, DefaultChunkOverlap)} :
        \E r \in {CreateVectorStore(rag, RagApiKey, dir, pdf_loader, embed_ok)} :
            /\ rag' = r.rag
            /\ rag_built' = (rag_built \/ r.error = NoError)
            /\ last' = [op |-> "create_vector_store", error |-> r.error,
                        embed_calls |-> r.embed_calls,
                        split_error |-> s.error, split_docs |-> s.split_docs]
            /\ UNCHANGED <<backend, pdf_loader, split, messages>>

RagGetRetriever ==
    \E k \in RetrieverKs :
        \E r \in {GetRetriever(rag, k)} :
            /\ last' = [op |-> "get_retriever", error |-> r.error,
                        retriever |-> r.retriever, embed_calls |-> 0]
            /\ UNCHANGED <<backend, rag, rag_built, pdf_loader, split, messages>>

RagRetrieve ==
    \E query \in Questions, k \in RetrieverKs :
        \E answer \in LoaderRetrieverAnswers(rag, k) :
        \E r \in {RetrieveContext(rag, query, k, answer)} :
            /\ last' = [op |-> "retrieve_context", error |-> r.error,
                        context |-> r.context, embed_calls |-> r.embed_calls,
                        retrieved |-> IF r.error = NoError THEN answer ELSE NotRetrieved]
            /\ UNCHANGED <<backend, rag, rag_built, pdf_loader, split, messages>>

\* the filters given to get_resource_details on this loader
RagResourceTypes ==
    {NoResourceType, ResourceType(<<>>), ResourceType(<<"a","_","t","y","p","e">>)}

RagSummary ==
    \E r \in CallResourcesSummary(rag) :
        /\ rag' = r.rag
        /\ last' = [op |-> "get_resources_summary", error |-> NoError,
                    summary |-> r.summary, documents |-> rag.documents]
        /\ UNCHANGED <<backend, rag_built, pdf_loader, split, messages>>

RagDetails ==
    \E resource_type \in RagResourceTypes :
        \E r \in {CallResourceDetails(rag, resource_type)} :
            /\ rag' = r.rag
            /\ last' = [op |-> "get_resource_details", error |-> NoError,
                        resource_type |-> resource_type, details |-> r.details,
                        documents |-> rag.documents]
            /\ UNCHANGED <<backend, rag_built, pdf_loader, split, messages>>

NextRag ==
    \/ RagLoad \/ RagSplit \/ RagCreate \/ RagGetRetriever \/ RagRetrieve
    \/ RagSummary \/ RagDetails

SpecRag == InitRagSpec /\ [][NextRag]_vars

(***************************************************************************)
(* SpecSplit: one run of _terraform_aware_split, block by block, on a text *)
(* put together from a few pieces                                          *)
(***************************************************************************)

PieceVariable ==
    <<"v","a","r","i","a","b","l","e"," ","\"","v","\""," ","{">>

PieceResource ==
    <<"r","e","s","o","u","r","c","e"," ","\"","t","\""," ","\"","n","\""," ","{">>

PieceTerraform ==
    <<"t","e","r","r","a","f","o","r","m"," ","{">>

PieceBody ==
    <<"\n"," "," ","a"," ","="," ","1","\n","}","\n">>

PieceComment ==
    <<"#"," ","a"," ","c","o","m","m","e","n","t"," ","l","i","n","e"," ","o","f"," ","3",
      "0"," ","c","h","a","r","s",".",".","\n">>

SplitPieces == {PieceVariable, PieceResource, PieceTerraform, PieceBody, PieceComment}

\* the most pieces in a text
MaxPieces == 4

\* the texts of at most n pieces
RECURSIVE TextsUpTo(_)
TextsUpTo(n) ==
    IF n = 0 THEN {<<>>}
    ELSE TextsUpTo(n - 1) \cup {t \o piece : t \in TextsUpTo(n - 1), piece \in SplitPieces}

SplitTexts == TextsUpTo(MaxPieces)
SplitChunkSizes == {60, 90, 100}
SplitChunkOverlaps == {0, 10, 43}

InitSplit ==
    /\ backend = NewBackend
    /\ rag = NewTerraformRAG
    /\ rag_built = FALSE
    /\ pdf_loader = TRUE
    /\ messages = <<>>
    /\ last = [op |-> "none", error |-> NoError]
    /\ \E content \in SplitTexts, chunk_size \in SplitChunkSizes,
          chunk_overlap \in SplitChunkOverlaps :
        split = [SplitIdle EXCEPT !.pc = "start", !.content = content,
                                  !.chunk_size = chunk_size,
                                  !.chunk_overlap = chunk_overlap]

\* "blocks = re.split(...); current_chunk = ''"
SplitBegin ==
    /\ split.pc = "start"
    /\ split' = [split EXCEPT !.pc = "loop", !.blocks = ReSplit(split.content),
                              !.i = 1, !.st = SplitInitState]
    /\ UNCHANGED <<backend, rag, rag_built, pdf_loader, last, messages>>

\* one iteration of the loop over blocks
SplitIterate ==
    /\ split.pc = "loop"
    /\ split.i <= Len(split.blocks)
    /\ split' = [split EXCEPT !.i = split.i + 1,
                              !.st = SplitStep(split.st, split.blocks[split.i],
                                               split.chunk_size, split.chunk_overlap),
                              !.size_flushed =
                                  IF IsSizeFlush(split.st, split.blocks[split.i],
                                                 split.chunk_size)
                                  THEN @ \cup {Strip(split.st.current_chunk)}
                                  ELSE @]
    /\ UNCHANGED <<backend, rag, rag_built, pdf_loader, last, messages>>

\* the rest of the function after the loop
SplitReturn ==
    /\ split.pc = "loop"
    /\ split.i > Len(split.blocks)
    /\ split' = [split EXCEPT !.pc = "done",
                              !.result = SplitFinish(split.st, split.content)]
    /\ UNCHANGED <<backend, rag, rag_built, pdf_loader, last, messages>>

NextSplit == SplitBegin \/ SplitIterate \/ SplitReturn

SpecSplit == InitSplit /\ [][NextSplit]_vars

(***************************************************************************)
(* SpecDocs: loading, splitting and the two inventory queries of a         *)
(* TerraformRAG object, in any order, over directories of Terraform files  *)
(***************************************************************************)

NetTfName ==
    <<"n","e","t",".","t","f">>

NetTfContent ==
    <<"p","r","o","v","i","d","e","r"," ","\"","p","\""," ","{","}","\n","v","a","r","i",
      "a","b","l","e"," ","\"","v","\""," ","{","}","\n","v","a","r","i","a","b","l","e",
      " ","\"","v","\""," ","{","}","\n","r","e","s","o","u","r","c","e"," ","\"","a","_",
      "t","y","p","e","\""," ","\"","x","\""," ","{"," ","p","r","o","p","1"," ","="," ",
      "2"," ","}","\n","r","e","s","o","u","r","c","e"," ","\"","b","_","t","y","p","e",
      "\""," ","\"","y","\""," ","{","\n"," "," ","p","r","o","p","1"," ","="," ","1","\n",
      " "," ","p","r","o","p","3"," ","="," ","3","\n","}","\n","o","u","t","p","u","t"," ",
      "\"","o","\""," ","{","}","\n">>

\* net.tf repeats the variable v and the resource a_type/x of main.tf, with its
\* property prop1
NetTf == [name |-> NetTfName, readable |-> TRUE, content |-> NetTfContent]

\* what the directory may show during a call on the loader
DocDirectories ==
    { MissingDir,
      Dir(<<>>, <<>>),
      Dir(<<MainTf>>, <<>>),
      Dir(<<NotesTf>>, <<>>),
      Dir(<<NotesTf, MainTf>>, <<>>),
      Dir(<<NetTf>>, <<>>),
      Dir(<<MainTf, NetTf>>, <<>>),
      Dir(<<NetTf, MainTf>>, <<>>),
      Dir(<<NetTf, NotesTf>>, <<>>),
      Dir(<<MainTf, NotesTf, NetTf>>, <<>>),
      Dir(<<>>, <<GuidePdf>>),
      Dir(<<NetTf>>, <<GuidePdf>>),
      Dir(<<MainTf, NetTf>>, <<GuidePdf>>) }

DocChunkSizes == {100, DefaultChunkSize}
DocChunkOverlaps == {0}

TypeA ==
    <<"a","_","t","y","p","e">>

TypeB ==
    <<"b","_","t","y","p","e">>

TypeC ==
    <<"c","_","t","y","p","e">>

\* the filters given to get_resource_details: none, empty, two types that
\* occur in the files and one that does not
ResourceTypeFilters ==
    {NoResourceType, ResourceType(<<>>), ResourceType(TypeA), ResourceType(TypeB),
     ResourceType(TypeC)}

InitDocs ==
    /\ backend = NewBackend
    /\ rag = NewTerraformRAG
    /\ rag_built = FALSE
    /\ pdf_loader = TRUE
    /\ messages = <<>>
    /\ split = SplitIdle
    /\ last = [op |-> "none", error |-> NoError]

DocsLoad ==
    \E dir \in DocDirectories :
        \E r \in {LoadTerraformFiles(rag, dir, pdf_loader)} :
            /\ rag' = r.rag
            /\ last' = [op |-> "load_terraform_files", error |-> r.error,
                        documents |-> r.documents, dir |-> dir]
            /\ UNCHANGED <<backend, rag_built, pdf_loader, split, messages>>

DocsSplit ==
    \E dir \in DocDirectories, chunk_size \in DocChunkSizes,
       chunk_overlap \in DocChunkOverlaps :
        \E r \in {SplitDocuments(rag, dir, pdf_loader, chunk_size, chunk_overlap)} :
            /\ rag' = r.rag
            /\ last' = [op |-> "split_documents", error |-> r.error,
                        split_docs |-> r.split_docs, documents |-> r.rag.documents,
                        chunk_size |-> chunk_size, chunk_overlap |-> chunk_overlap]
            /\ UNCHANGED <<backend, rag_built, pdf_loader, split, messages>>

DocsSummary ==
    \E summary \in GetResourcesSummary(rag) :
        /\ last' = [op |-> "get_resources_summary", error |-> NoError,
                    summary |-> summary, documents |-> rag.documents]
        /\ UNCHANGED <<backend, rag, rag_built, pdf_loader, split, messages>>

DocsDetails ==
    \E resource_type \in ResourceTypeFilters :
        /\ last' = [op |-> "get_resource_details", error |-> NoError,
                    resource_type |-> resource_type,
                    details |-> GetResourceDetails(rag, resource_type),
                    documents |-> rag.documents]
        /\ UNCHANGED <<backend, rag, rag_built, pdf_loader, split, messages>>

NextDocs == DocsLoad \/ DocsSplit \/ DocsSummary \/ DocsDetails

SpecDocs == InitDocs /\ [][NextDocs]_vars

(***************************************************************************)
(* SpecClassify: _identify_chunk_type applied to one fragment text         *)
(***************************************************************************)

ClassifyKeywords ==
    {KwResource, KwData, KwVariable, KwOutput, KwProvider, KwTerraform, KwModule, KwLocals}

\* how a fragment text may begin: a keyword, a keyword in other case, a longer
\* word that begins with a keyword, another word, a comment, nothing
ClassifyHeads ==
    ClassifyKeywords \cup
    { <<"R","e","s","o","u","r","c","e">>,
      <<"D","A","T","A">>,
      <<"d","a","t","a","b","a","s","e">>,
      <<"o","u","t","p","u","t","s">>,
      <<"m","o","d","u","l","e","_","x">>,
      <<"m","y","_","d","a","t","a">>,
      <<"f","o","o">>,
      <<"#">>,
      <<>> }

ClassifyLeads == { <<>>, <<" ">>, <<"\n","\t">> }

ClassifyTails ==
    { <<>>, <<"\n">>, <<" ","="," ","1">>, <<" ","\"","x","\""," ","{">> }

ClassifyTexts ==
    {lead \o head \o tail :
        lead \in ClassifyLeads, head \in ClassifyHeads, tail \in ClassifyTails}

InitClassify ==
    /\ backend = NewBackend
    /\ rag = NewTerraformRAG
    /\ rag_built = FALSE
    /\ pdf_loader = TRUE
    /\ messages = <<>>
    /\ split = SplitIdle
    /\ \E chunk \in ClassifyTexts :
        last = [op |-> "none", error |-> NoError, chunk |-> chunk]

DoIdentifyChunkType ==
    /\ last.op = "none"
    /\ last' = [op |-> "_identify_chunk_type", error |-> NoError,
                chunk |-> last.chunk, chunk_type |-> IdentifyChunkType(last.chunk)]
    /\ UNCHANGED <<backend, rag, rag_built, pdf_loader, split, messages>>

NextClassify == DoIdentifyChunkType

SpecClassify == InitClassify /\ [][NextClassify]_vars

(***************************************************************************)
(* Properties                                                              *)
(***************************************************************************)

\* the last operation was a generate_response call
IsGenerate == last.op = "generate_response"

\* the sentinel, as the specification spells it
C1_Sentinel ==
    <<"N","o"," ","r","e","l","e","v","a","n","t"," ","T","e","r","r","a","f","o","r","m",
      " ","c","o","n","f","i","g","u","r","a","t","i","o","n"," ","f","o","u","n","d"," ",
      "f","o","r"," ","t","h","i","s"," ","q","u","e","r","y",".">>

\* C1: whenever the retriever returns zero fragments during generate_response,
\* retrieve_context returns exactly the sentinel and generate_response returns
\* the fixed refusal without invoking the generator (rag_chain.run is not
\* called, nor is the conversation chain).
C1_GroundingShortCircuit ==
    (IsGenerate /\ last.retrieved.ok /\ last.retrieved.docs = <<>>) =>
        /\ last.context = C1_Sentinel
        /\ last.error = NoError
        /\ last.response = RefusalText
        /\ last.rag_runs = <<>>
        /\ last.conv_runs = 0

\* C1 witness: a generate_response call whose retrieval returned no fragment
\* and that returned the refusal
C1_Witness ==
    /\ IsGenerate
    /\ last.retrieved.ok
    /\ last.retrieved.docs = <<>>
    /\ last.response = RefusalText
    /\ backend.memory # <<>>

\* C2: for every non-empty list of retrieved fragments, whatever their content,
\* generate_response invokes the generator exactly once, with exactly the
\* assembled context and the question, and returns the generator's output
\* unchanged (never the refusal).
C2_NonEmptyRetrievalRunsGenerator ==
    (IsGenerate /\ last.retrieved.ok /\ last.retrieved.docs # <<>>) =>
        /\ last.rag_runs = << [context |-> AssembleContext(last.retrieved.docs),
                               question |-> last.user_input] >>
        /\ last.gen.ok => (last.error = NoError /\ last.response = last.gen.text)

\* "self.use_rag and self.terraform_rag and self.rag_chain" does not hold of b
C3_RagUnavailable(b) ==
    \/ ~b.use_rag
    \/ b.terraform_rag = None
    \/ b.rag_chain = None

HasIndex(b) == b.terraform_rag # None /\ b.terraform_rag.vector_store # None

\* C4: once an index has been built, every later operation leaves the backend
\* with a complete index (the old one or a new one): a rebuild never leaves the
\* index missing, and a rebuild that fails leaves the previous index in place.
C4_AtomicIndexSwap ==
    [][ HasIndex(backend) =>
          /\ HasIndex(backend')
          /\ (last'.op = "initialize_chain" /\ ~last'.build_ok) =>
                backend'.terraform_rag.vector_store = backend.terraform_rag.vector_store
      ]_vars

C5_Separator ==
    <<"\n","\n","-","-","-","\n","\n">>

C5_CountHead ==
    <<"R","e","t","r","i","e","v","e","d"," ">>

C5_CountTail ==
    <<" ","r","e","l","e","v","a","n","t"," ","d","o","c","u","m","e","n","t","(","s",")",
      " ","f","r","o","m"," ","T","e","r","r","a","f","o","r","m"," ","f","i","l","e","s",
      " ","a","n","d"," ","d","o","c","u","m","e","n","t","a","t","i","o","n",":","\n","\n">>

C5_From ==
    <<"[","F","r","o","m"," ">>

C5_PdfPage ==
    <<" ","(","P","D","F",")"," ","-"," ","P","a","g","e"," ">>

C5_Pdf ==
    <<" ","(","P","D","F",")","]">>

C5_Dash ==
    <<" ","-"," ">>

\* the header the specification gives a fragment
C5_Header(doc) ==
    IF doc.metadata.file_type = "pdf"
    THEN IF "page" \in DOMAIN doc.metadata
         THEN C5_From \o doc.metadata.source \o C5_PdfPage
              \o Decimal(doc.metadata.page) \o <<"]">>
         ELSE C5_From \o doc.metadata.source \o C5_Pdf
    ELSE C5_From \o doc.metadata.source \o C5_Dash \o doc.metadata.chunk_type \o <<"]">>

\* the first n fragment blocks, each header, newline, content, in retrieval
\* order with the separator between them
RECURSIVE C5_Blocks(_, _)
C5_Blocks(docs, n) ==
    IF n = 0 THEN <<>>
    ELSE (IF n = 1 THEN <<>> ELSE C5_Blocks(docs, n - 1) \o C5_Separator)
         \o C5_Header(docs[n]) \o <<"\n">> \o docs[n].page_content

\* C5: for every non-empty list of n retrieved fragments retrieve_context
\* returns the count line followed by the n blocks in retrieval order joined by
\* the separator, each header in the form its file type and page call for;
\* the result is not the sentinel.
C5_ContextFormat ==
    (last.op = "retrieve_context" /\ last.retrieved.ok /\ last.retrieved.docs # <<>>) =>
        /\ last.error = NoError
        /\ last.context = C5_CountHead \o Decimal(Len(last.retrieved.docs)) \o C5_CountTail
                          \o C5_Blocks(last.retrieved.docs, Len(last.retrieved.docs))
        /\ last.context # C1_Sentinel

\* C5 witness: a retrieval of at least two fragments, one from a page of a
\* flat document and one from a structured-config file
C5_Witness ==
    /\ last.op = "retrieve_context"
    /\ last.retrieved.ok
    /\ Len(last.retrieved.docs) >= 2
    /\ \E i, j \in 1..Len(last.retrieved.docs) :
          /\ last.retrieved.docs[i].metadata.file_type = "pdf"
          /\ "page" \in DOMAIN last.retrieved.docs[i].metadata
          /\ last.retrieved.docs[j].metadata.file_type = "terraform"

\* C6: retrieve_context and get_retriever on a loader on which
\* create_vector_store has never completed fail with the not-initialized error,
\* without invoking the embedding capability and leaving the loader (its
\* document set and index reference) unchanged.
C6_NotInitialized ==
    [][ (last'.op \in {"retrieve_context", "get_retriever"} /\ ~rag_built) =>
          /\ last'.error = ErrNotInitialized
          /\ last'.embed_calls = 0
          /\ rag'.documents = rag.documents
          /\ rag'.vector_store = rag.vector_store ]_vars

\* C6 witness: retrieve_context raised not-initialized on a loader that holds
\* documents but never built an index
C6_Witness ==
    /\ last.op = "retrieve_context"
    /\ ~rag_built
    /\ last.error = ErrNotInitialized
    /\ rag.documents # <<>>

\* C7: create_vector_store fails whenever chunking yields zero fragments; it
\* fails before invoking the embedding capability and leaves the index
\* reference unchanged.
C7_NoFragmentsFails ==
    [][ (/\ last'.op = "create_vector_store"
         /\ last'.split_error = NoError
         /\ last'.split_docs = <<>>) =>
          /\ last'.error # NoError
          /\ last'.embed_calls = 0
          /\ rag'.vector_store = rag.vector_store ]_vars

\* C7 witness: create_vector_store failed for want of fragments on a loader
\* that already held an index, and the index is still there
C7_Witness ==
    /\ last.op = "create_vector_store"
    /\ last.split_error = NoError
    /\ last.split_docs = <<>>
    /\ last.error = ErrNoDocuments
    /\ rag.vector_store # None

\* the directory is missing, or holds no .tf and no .pdf file
C8_NothingToLoad(dir) ==
    \/ ~dir.exists
    \/ dir.tf_files = <<>> /\ dir.pdf_files = <<>>

\* C8: load_terraform_files fails when the directory does not exist and when
\* it holds no supported file; the document set is left as it was.
C8_LoadFailsOnNothing ==
    [][ (last'.op = "load_terraform_files" /\ C8_NothingToLoad(last'.dir)) =>
          /\ last'.error # NoError
          /\ rag' = rag ]_vars

\* C8 witness: a load failed on an existing directory without supported files
\* while the loader held documents
C8_Witness ==
    /\ last.op = "load_terraform_files"
    /\ last.dir.exists
    /\ C8_NothingToLoad(last.dir)
    /\ last.error = ErrNoFiles
    /\ rag.documents # <<>>

\* the files of a list that can be read
C9_Readable(files) == {i \in 1..Len(files) : files[i].readable}

\* the number of pages of the readable files of a list of flat documents
RECURSIVE C9_Pages(_)
C9_Pages(pdf_files) ==
    IF pdf_files = <<>> THEN 0
    ELSE (IF Head(pdf_files).readable THEN Len(Head(pdf_files).pages) ELSE 0)
         + C9_Pages(Tail(pdf_files))

\* the documents of a list that come from the file called name
C9_DocsOf(documents, name) ==
    {i \in 1..Len(documents) : documents[i].metadata.source = name}

\* C9: on a directory that holds supported files, load_terraform_files
\* succeeds; it returns one Document per readable .tf file, holding the file's
\* text, and one per page of each readable .pdf file (a .pdf file can be read
\* only when the PDF loader is installed), none for an unreadable file; and the
\* loader's document set is exactly the returned list.
C9_PerFileFailuresSkipped ==
    (last.op = "load_terraform_files" /\ ~C8_NothingToLoad(last.dir)) =>
        /\ last.error = NoError
        /\ rag.documents = last.documents
        /\ Len(last.documents) =
              Cardinality(C9_Readable(last.dir.tf_files))
              + (IF pdf_loader THEN C9_Pages(last.dir.pdf_files) ELSE 0)
        /\ \A i \in 1..Len(last.dir.tf_files) :
              LET f == last.dir.tf_files[i]
              IN  IF f.readable
                  THEN \E d \in C9_DocsOf(last.documents, f.name) :
                          /\ C9_DocsOf(last.documents, f.name) = {d}
                          /\ last.documents[d].page_content = f.content
                  ELSE C9_DocsOf(last.documents, f.name) = {}
        /\ \A i \in 1..Len(last.dir.pdf_files) :
              LET f == last.dir.pdf_files[i]
              IN  Cardinality(C9_DocsOf(last.documents, f.name)) =
                     IF f.readable /\ pdf_loader THEN Len(f.pages) ELSE 0

\* C9 witness: a load that succeeded on a directory with a readable and an
\* unreadable file
C9_Witness ==
    /\ last.op = "load_terraform_files"
    /\ last.error = NoError
    /\ \E i \in 1..Len(last.dir.tf_files) : ~last.dir.tf_files[i].readable
    /\ Len(last.documents) = 1

\* C10: for every text no longer than chunk_size, block headers or not,
\* _terraform_aware_split returns exactly one fragment, and when the trimmed
\* text is longer than the 50-character floor the fragment is the trimmed text.
C10_SmallTextOneFragment ==
    (split.pc = "done" /\ Len(split.content) <= split.chunk_size) =>
        /\ Len(split.result) = 1
        /\ Len(Strip(split.content)) > 50 => split.result[1] = Strip(split.content)

\* the top-level blocks of the texts: a header and the body that follows it
C11_Blocks ==
    {PieceVariable \o PieceBody, PieceResource \o PieceBody, PieceTerraform \o PieceBody}

\* text is made of top-level blocks, one after the other
RECURSIVE C11_IsBlocks(_)
C11_IsBlocks(text) ==
    \/ text = <<>>
    \/ \E b \in C11_Blocks :
          /\ StartsWith(text, b)
          /\ C11_IsBlocks(Slice(text, Len(b) + 1, Len(text)))

\* C11: for every text made of non-nested top-level blocks, each shorter than
\* chunk_size, and every chunk_size and chunk_overlap, each block's header and
\* the content that follows it are together in at least one returned fragment:
\* no header is split from its body and no block is dropped.
C11_HeaderStaysWithBody ==
    (/\ split.pc = "done"
     /\ split.content # <<>>
     /\ C11_IsBlocks(split.content)) =>
        \A b \in C11_Blocks :
            (Contains(split.content, b) /\ Len(b) < split.chunk_size) =>
                \E i \in 1..Len(split.result) : Contains(split.result[i], Strip(b))

\* the last n characters of s
C12_Tail(s, n) == Slice(s, Len(s) - n + 1, Len(s))

\* C12: for every pair of adjacent returned fragments f(i), f(i+1) where f(i)
\* was emitted by a size-driven flush and has at least chunk_overlap
\* characters, the last chunk_overlap characters of f(i) are a prefix of f(i+1).
C12_OverlapIsPrefix ==
    split.pc = "done" =>
        \A i \in 1..(Len(split.result) - 1) :
            (/\ split.result[i] \in split.size_flushed
             /\ Len(split.result[i]) >= split.chunk_overlap) =>
                StartsWith(split.result[i + 1],
                           C12_Tail(split.result[i], split.chunk_overlap))

\* f is a contiguous piece of text, behind at most overlap carried-over
\* characters that are a contiguous piece of text themselves
C13_FromText(f, text, overlap) ==
    \E k \in 0..(IF overlap < Len(f) THEN overlap ELSE Len(f)) :
        /\ Contains(text, Slice(f, 1, k))
        /\ Contains(text, Slice(f, k + 1, Len(f)))

\* C13: every fragment the chunker returns for a text is a contiguous substring
\* of the text, apart from a carried-over overlap prefix (at most chunk_overlap
\* characters) that is a contiguous substring of the text too.
C13_FragmentsAreSubstrings ==
    split.pc = "done" =>
        \A i \in 1..Len(split.result) :
            C13_FromText(split.result[i], split.content, split.chunk_overlap)

\* the fragment carries every metadata entry of the Document unchanged
C14_Inherits(frag, doc) ==
    \A key \in DOMAIN doc.metadata :
        key \in DOMAIN frag.metadata /\ frag.metadata[key] = doc.metadata[key]

\* the positions in the document set of the Documents fragment i inherits from
C14_Owners(i) ==
    {d \in 1..Len(last.documents) : C14_Inherits(last.split_docs[i], last.documents[d])}

\* the fragments of the same Document before fragment i
C14_Earlier(i) == {j \in 1..(i - 1) : C14_Owners(j) = C14_Owners(i)}

C14_Split == last.op = "split_documents" /\ last.error = NoError

\* C14: in the output of split_documents every fragment inherits all metadata
\* of exactly one Document of the set, its chunk index is the number of
\* fragments of that Document before it (0, 1, 2, ..., strictly increasing in
\* emission order), and between two fragments of one Document there is no
\* fragment of another.
C14_FragmentsInOrder ==
    C14_Split =>
        /\ \A i \in 1..Len(last.split_docs) :
            /\ Cardinality(C14_Owners(i)) = 1
            /\ last.split_docs[i].metadata.chunk = Cardinality(C14_Earlier(i))
        /\ \A i, j \in 1..Len(last.split_docs) :
            (i < j /\ C14_Owners(i) = C14_Owners(j)) =>
                /\ last.split_docs[i].metadata.chunk < last.split_docs[j].metadata.chunk
                /\ \A h \in i..j : C14_Owners(h) = C14_Owners(i)

\* two Documents were split, the first into more than one fragment
C14_Witness ==
    /\ C14_Split
    /\ \E i, j \in 1..Len(last.split_docs) :
        /\ i < j
        /\ last.split_docs[i].metadata.chunk = 1
        /\ C14_Owners(i) # C14_Owners(j)

\* the leading token of a text: its longest prefix of word characters
C15_LeadingToken(s) == Slice(s, 1, SkipWord(s, 1) - 1)

\* the kind a token stands for
C15_KindOf(token) ==
    IF token = KwResource THEN KindResource
    ELSE IF token = KwData THEN KindDataSource
    ELSE IF token = KwVariable THEN KindVariable
    ELSE IF token = KwOutput THEN KindOutput
    ELSE IF token = KwProvider THEN KindProvider
    ELSE IF token = KwTerraform THEN KindTerraformConfig
    ELSE IF token = KwModule THEN KindModule
    ELSE IF token = KwLocals THEN KindLocals
    ELSE KindGeneral

\* C15: the classifier returns the kind of the keyword that is the fragment's
\* leading token after trimming whitespace and ignoring case, and general when
\* the leading token is not one of the eight keywords.
C15_KindOfLeadingToken ==
    last.op = "_identify_chunk_type" =>
        last.chunk_type = C15_KindOf(C15_LeadingToken(Strip(Lower(last.chunk))))

\* the resource headers matched in the documents, file by file
RECURSIVE C16_AllResources(_)
C16_AllResources(documents) ==
    IF documents = <<>> THEN <<>>
    ELSE FindAllResources(Head(documents).page_content, 1)
         \o C16_AllResources(Tail(documents))

\* the names matched behind keyword kw in the documents
RECURSIVE C16_AllNamed(_, _)
C16_AllNamed(documents, kw) ==
    IF documents = <<>> THEN <<>>
    ELSE FindAllNamed(Head(documents).page_content, kw, 1)
         \o C16_AllNamed(Tail(documents), kw)

C16_Count(seq, x) == Cardinality({i \in DOMAIN seq : seq[i] = x})

\* the list holds every name matched behind kw, each exactly once
C16_EachOnce(list, kw) ==
    /\ SetOf(list) = SetOf(C16_AllNamed(last.documents, kw))
    /\ Len(list) = Cardinality(SetOf(list))

\* the entries of all value lists of resource_types
C16_Entries(resource_types) ==
    UNION {{<<res_type, i>> : i \in DOMAIN resource_types[res_type]} :
              res_type \in DOMAIN resource_types}

\* C16: get_resources_summary reports total_files as the number of loaded
\* documents; resource_types has no empty key and lists under each type one
\* entry per resource header occurrence, so a (type, name) pair is listed as
\* often as it occurs and the lists total the number of occurrences; variables,
\* outputs and providers hold every matched name exactly once.
C16_SummaryCounts ==
    last.op = "get_resources_summary" =>
        /\ last.summary.total_files = Len(last.documents)
        /\ <<>> \notin DOMAIN last.summary.resource_types
        /\ \A i \in DOMAIN C16_AllResources(last.documents) :
            C16_AllResources(last.documents)[i].res_type
                \in DOMAIN last.summary.resource_types
        /\ \A res_type \in DOMAIN last.summary.resource_types :
            \A res_name \in SetOf(last.summary.resource_types[res_type]) :
                C16_Count(last.summary.resource_types[res_type], res_name)
                    = C16_Count(C16_AllResources(last.documents),
                                [res_type |-> res_type, res_name |-> res_name])
        /\ Cardinality(C16_Entries(last.summary.resource_types))
               = Len(C16_AllResources(last.documents))
        /\ C16_EachOnce(last.summary.variables, KwVariable)
        /\ C16_EachOnce(last.summary.outputs, KwOutput)
        /\ C16_EachOnce(last.summary.providers, KwProvider)

\* a summary over two files that both declare resource a_type/x and where the
\* variable v was matched more often than it is listed
C16_Witness ==
    /\ last.op = "get_resources_summary"
    /\ Len(last.documents) >= 2
    /\ TypeA \in DOMAIN last.summary.resource_types
    /\ C16_Count(last.summary.resource_types[TypeA], <<"x">>) = 2
    /\ Len(C16_AllNamed(last.documents, KwVariable)) > Len(last.summary.variables)
    /\ last.summary.variables # <<>>

\* the resource blocks matched in the documents, file by file
RECURSIVE C17_AllBlocks(_)
C17_AllBlocks(documents) ==
    IF documents = <<>> THEN <<>>
    ELSE FindAllBlocks(Head(documents).page_content, 1) \o C17_AllBlocks(Tail(documents))

\* C17: when get_resource_details is given a filter string, every entry it
\* returns has that string as its type, and every matched resource block of
\* that type has its entry in the result.
C17_OnlyFilteredType ==
    (last.op = "get_resource_details" /\ ~last.resource_type.is_none) =>
        /\ \A key \in DOMAIN last.details :
            last.details[key].type = last.resource_type.str
        /\ \A i \in DOMAIN C17_AllBlocks(last.documents) :
            C17_AllBlocks(last.documents)[i].res_type = last.resource_type.str =>
                DetailKey(C17_AllBlocks(last.documents)[i]) \in DOMAIN last.details

\* the document set is the one file main.tf, whose whole text is the resource
\* block of type a_type and name x with the one property prop1
C18_OneResourceFile ==
    /\ "documents" \in DOMAIN last
    /\ last.error = NoError
    /\ Len(last.documents) = 1
    /\ last.documents[1].page_content = MainTfContent
    /\ last.documents[1].metadata.source = MainTfName

C18_Key == TypeA \o <<"/">> \o <<"x">>

C18_Prop1 == <<"p","r","o","p","1">>

\* C18: on that document set split_documents with chunk size 1000 yields
\* exactly one fragment, classified resource; get_resources_summary yields
\* resource_types = {a_type: [x]}; get_resource_details yields exactly one
\* entry, a_type/x, whose properties are [prop1].
C18_EndToEnd ==
    C18_OneResourceFile =>
        /\ (last.op = "split_documents" /\ last.chunk_size = DefaultChunkSize) =>
            /\ Len(last.split_docs) = 1
            /\ last.split_docs[1].page_content = MainTfContent
            /\ last.split_docs[1].metadata.chunk_type = KindResource
        /\ last.op = "get_resources_summary" =>
            /\ DOMAIN last.summary.resource_types = {TypeA}
            /\ last.summary.resource_types[TypeA] = << <<"x">> >>
        /\ (last.op = "get_resource_details" /\ last.resource_type.is_none) =>
            /\ DOMAIN last.details = {C18_Key}
            /\ last.details[C18_Key].type = TypeA
            /\ last.details[C18_Key].name = <<"x">>
            /\ last.details[C18_Key].properties = << C18_Prop1 >>

\* the one file was split with chunk size 1000
C18_Witness ==
    /\ C18_OneResourceFile
    /\ last.op = "split_documents"
    /\ last.chunk_size = DefaultChunkSize
    /\ Len(last.split_docs) = 1

\* header h is one of the pieces the chunker walks
C19_WalkedAsBoundary(h) ==
    \E i \in 1..Len(split.blocks) : split.blocks[i] = h

\* C19: every block header of the text, a keyword followed by one or by two
\* quoted labels and an opening brace or a bare "terraform {", is recognised as
\* a boundary: the text is cut there, so the header is one of the pieces the
\* chunker walks.
C19_HeadersAreBoundaries ==
    split.pc \in {"loop", "done"} =>
        \A h \in {PieceVariable, PieceResource, PieceTerraform} :
            Contains(split.content, h) => C19_WalkedAsBoundary(h)

\* the pieces put together in the order they are walked
RECURSIVE C20_Concat(_)
C20_Concat(blocks) ==
    IF blocks = <<>> THEN <<>> ELSE Head(blocks) \o C20_Concat(Tail(blocks))

\* C20: the pieces the chunker walks are the boundary matches and the texts
\* between them, each boundary occurrence once, so that the pieces put together
\* are the input text.
C20_PiecesMakeUpText ==
    split.pc \in {"loop", "done"} => C20_Concat(split.blocks) = split.content

\* the step processes the next piece, and that piece is a boundary
C21_BoundaryStep ==
    /\ split.pc = "loop"
    /\ split'.pc = "loop"
    /\ split'.i = split.i + 1
    /\ ReMatchBlockPattern(Strip(split.blocks[split.i]))

\* C21: when a boundary is processed and the buffer is longer than 70% of the
\* chunk size, the buffer is emitted (trimmed) as a completed fragment and the
\* new buffer is exactly the boundary text; when the buffer is at most 70% of
\* the chunk size, nothing is emitted and the boundary text is appended.
C21_BoundaryFlush ==
    [][C21_BoundaryStep =>
          IF Len(split.st.current_chunk) * 10 > split.chunk_size * 7
          THEN /\ split'.st.chunks
                      = Append(split.st.chunks, Strip(split.st.current_chunk))
               /\ split'.st.current_chunk = split.blocks[split.i]
          ELSE /\ split'.st.chunks = split.st.chunks
               /\ split'.st.current_chunk
                      = split.st.current_chunk \o split.blocks[split.i]]_vars

\* the step processes the next piece, and that piece is text between boundaries
C22_TextStep ==
    /\ split.pc = "loop"
    /\ split'.pc = "loop"
    /\ split'.i = split.i + 1
    /\ Strip(split.blocks[split.i]) # <<>>
    /\ ~ReMatchBlockPattern(Strip(split.blocks[split.i]))

\* the last n characters of buffer s, all of s when it is shorter
C22_Carried(s, n) ==
    IF Len(s) <= n THEN s ELSE Slice(s, Len(s) - n + 1, Len(s))

\* the fragments after buffer s is emitted; an empty buffer emits nothing
C22_Emitted(chunks, s) ==
    IF Strip(s) = <<>> THEN chunks ELSE Append(chunks, Strip(s))

\* C22: when text between boundaries is processed and buffer plus text exceeds
\* the chunk size, the buffer is emitted and the new buffer is the last
\* chunk_overlap characters of the emitted buffer followed by the text, for
\* every chunk_overlap >= 0 (nothing is carried over when it is 0); otherwise
\* the text is appended and nothing is emitted.
C22_SizeFlush ==
    [][C22_TextStep =>
          IF Len(split.st.current_chunk) + Len(split.blocks[split.i]) > split.chunk_size
          THEN /\ split'.st.chunks = C22_Emitted(split.st.chunks, split.st.current_chunk)
               /\ split'.st.current_chunk
                      = C22_Carried(split.st.current_chunk, split.chunk_overlap)
                            \o split.blocks[split.i]
          ELSE /\ split'.st.chunks = split.st.chunks
               /\ split'.st.current_chunk
                      = split.st.current_chunk \o split.blocks[split.i]]_vars

\* the completed fragments when the walk has ended: the emitted ones and the
\* trimmed rest of the buffer
C23_Completed ==
    IF Strip(split.st.current_chunk) = <<>> THEN split.st.chunks
    ELSE Append(split.st.chunks, Strip(split.st.current_chunk))

C23_IsKept(chunk) == Len(chunk) >= MinChunkLen

\* C23: of the completed fragments exactly those shorter than 50 characters are
\* discarded (one of exactly 50 is kept); when none is left the result is the
\* one fragment holding the whole text; the result is never empty.
C23_FinalFilter ==
    split.pc = "done" =>
        /\ split.result # <<>>
        /\ split.result =
               IF SelectSeq(C23_Completed, C23_IsKept) = <<>>
               THEN << split.content >>
               ELSE SelectSeq(C23_Completed, C23_IsKept)

\* the last call was an initialize_chain during which the embedding capability
\* was invoked and failed: the fresh loader holds no index
C24_EmbeddingFailedInInit ==
    /\ last.op = "initialize_chain"
    /\ last.embed_calls > 0
    /\ backend.terraform_rag.vector_store = None

\* the last call was a generate_response during which retrieval or generation
\* failed
C24_FailedInGenerate ==
    /\ last.op = "generate_response"
    /\ last.cause \in {ErrEmbedding, ErrGenerator}

\* C24: a failure of the embedding or generation capability during
\* initialize_chain or during generate_response is raised to the caller of
\* that operation, and no answer is returned.
C24_FailuresPropagate ==
    /\ C24_EmbeddingFailedInInit => last.error # NoError
    /\ C24_FailedInGenerate => (last.error # NoError /\ last.response = "")

\* the resource blocks matched in one document: key, type, name, file and
\* property names of each
C25_DocBlocks(doc) ==
    [i \in DOMAIN FindAllBlocks(doc.page_content, 1) |->
        [key |-> FindAllBlocks(doc.page_content, 1)[i].res_type \o <<"/">>
                    \o FindAllBlocks(doc.page_content, 1)[i].res_name,
         res_type |-> FindAllBlocks(doc.page_content, 1)[i].res_type,
         res_name |-> FindAllBlocks(doc.page_content, 1)[i].res_name,
         source |-> doc.metadata.source,
         properties |-> FindAllProperties(FindAllBlocks(doc.page_content, 1)[i].res_body, 1)]]

\* the matched blocks in document order, within a document in match order
RECURSIVE C25_AllBlocks(_)
C25_AllBlocks(documents) ==
    IF documents = <<>> THEN <<>>
    ELSE C25_DocBlocks(Head(documents)) \o C25_AllBlocks(Tail(documents))

\* the matched blocks with this key that the query of the last call is about
C25_WithKey(key) ==
    SelectSeq(C25_AllBlocks(last.documents),
              LAMBDA b : /\ b.key = key
                         /\ (last.resource_type.is_none
                                \/ b.res_type = last.resource_type.str))

RECURSIVE C25_Properties(_)
C25_Properties(blocks) ==
    IF blocks = <<>> THEN <<>>
    ELSE Head(blocks).properties \o C25_Properties(Tail(blocks))

\* a query without a filter or with a type as filter
C25_Query ==
    /\ last.op = "get_resource_details"
    /\ (last.resource_type.is_none \/ last.resource_type.str # <<>>)

\* C25: get_resource_details returns one entry per distinct key type/name among
\* the matched blocks; the entry holds the type and the name of the key, the
\* file of the first matched block with that key, and as properties the
\* property names of all matched blocks with that key, in document and match
\* order, duplicates kept.
C25_EntryPerKey ==
    C25_Query =>
        /\ \A i \in DOMAIN C25_AllBlocks(last.documents) :
            C25_WithKey(C25_AllBlocks(last.documents)[i].key) # <<>> =>
                C25_AllBlocks(last.documents)[i].key \in DOMAIN last.details
        /\ \A key \in DOMAIN last.details :
            /\ C25_WithKey(key) # <<>>
            /\ last.details[key].type \o <<"/">> \o last.details[key].name = key
            /\ last.details[key].type = Head(C25_WithKey(key)).res_type
            /\ last.details[key].source_file = Head(C25_WithKey(key)).source
            /\ last.details[key].properties = C25_Properties(C25_WithKey(key))

\* an entry put together from blocks of two files that name the same property
C25_Witness ==
    /\ C25_Query
    /\ \E key \in DOMAIN last.details :
        /\ Len(C25_WithKey(key)) = 2
        /\ C25_WithKey(key)[1].source # C25_WithKey(key)[2].source
        /\ Len(last.details[key].properties) = 2
        /\ last.details[key].properties[1] = last.details[key].properties[2]

\* the step is a call of one of the two inventory queries
C26_QueryStep ==
    last'.op \in {"get_resources_summary", "get_resource_details"}

\* the step repeats the query of the step before it, the argument being the same
C26_Repeated ==
    /\ last.op = last'.op
    /\ last.op = "get_resource_details" => last'.resource_type = last.resource_type

\* what the call returned
C26_Result(call) ==
    IF call.op = "get_resources_summary" THEN call.summary ELSE call.details

C27_RagInitialized ==
    /\ last.op = "initialize_chain"
    /\ last.error = NoError
    /\ last.needed
    /\ last.build_ok

\* C27: a generate_response that follows an initialize_chain call during which
\* the index build and the creation of the RAG chain succeeded does not fail
\* with "RAG system not initialized", whatever happened in earlier calls.
C27_RagRecovers ==
    [][(C27_RagInitialized /\ last'.op = "generate_response") =>
          last'.error # ErrRagNotInitialized]_vars

\* the record a returning generate_response leaves in the memory
C28_Record(call) == [input |-> call.user_input, output |-> call.response]

\* C28: a generate_response call that returns appends exactly one record, that
\* call's question and returned text, to the conversation memory; a call that
\* raises appends nothing; clear_memory empties the memory; initialize_chain
\* leaves it as it is.
C28_MemoryLog ==
    [][/\ (last'.op = "generate_response" /\ last'.error = NoError) =>
              /\ backend'.memory = Append(backend.memory, C28_Record(last'))
              /\ last'.response \in {RefusalText, last'.gen.text}
       /\ (last'.op = "generate_response" /\ last'.error # NoError) =>
              backend'.memory = backend.memory
       /\ last'.op = "clear_memory" => backend'.memory = <<>>
       /\ last'.op = "initialize_chain" => backend'.memory = backend.memory]_vars

\* two calls have returned, the first with the refusal and the second with the
\* generator's answer
C28_Witness ==
    /\ last.op = "generate_response"
    /\ last.error = NoError
    /\ Len(backend.memory) = 2
    /\ backend.memory[1].output = RefusalText
    /\ backend.memory[2] = C28_Record(last)
    /\ backend.memory[2].output # RefusalText

(***************************************************************************)
(* C29                                                                     *)
(***************************************************************************)

\* msgs is a sequence of (user, assistant) pairs
C29_Pairs(msgs) ==
    /\ Len(msgs) % 2 = 0
    /\ \A i \in DOMAIN msgs :
        msgs[i].role = (IF i % 2 = 1 THEN "user" ELSE "assistant")

\* C29: after every handled event of the app (a submit that succeeds, fails
\* during initialization or fails during generation, or a clear) the session's
\* message list is a sequence of (user, assistant) pairs, with as many pairs
\* as the backend's conversation memory has records; a submit that failed
\* leaves the list as it was before the submit.
C29_Transcript ==
    [][/\ C29_Pairs(messages')
       /\ Len(messages') = 2 * Len(backend'.memory)
       /\ (last'.op = "submit" /\ last'.error # NoError) => messages' = messages
       /\ (last'.op = "submit" /\ last'.error = NoError) =>
              /\ Len(messages') = Len(messages) + 2
              /\ SubSeq(messages', 1, Len(messages)) = messages
       /\ last'.op = "clear" => messages' = <<>>]_vars

\* a submit failed during generation after one that succeeded
C29_Witness ==
    /\ last.op = "submit" /\ last.stage = "generate" /\ last.error # NoError
    /\ Len(messages) = 2
    /\ Len(backend.memory) = 1

(***************************************************************************)
(* C30                                                                     *)
(***************************************************************************)

\* the call of initialize_chain just made found a conversation chain and the
\* configuration it was given already stored
C30_Unchanged == IsReady(backend) /\ StoredConfig(backend) = last'.config

\* the index the call builds from the directory it is shown
C30_Built ==
    CreateVectorStore(NewTerraformRAG, last'.config.api_key, last'.env.dir,
                      last'.env.pdf_loader, last'.env.embed_ok)

\* the call replaced the conversation chain and the loader with new ones made
\* from its configuration, the loader holding the index built during the call
C30_Rebuilt ==
    /\ last'.rag_created
    /\ backend'.conversation_chain =
           [llm |-> NewLLM(last'.config.api_key, last'.config.model_name,
                           last'.config.temperature, last'.config.max_tokens)]
    /\ backend'.terraform_rag = C30_Built.rag
    /\ last'.embed_calls = C30_Built.embed_calls
    /\ StoredConfig(backend') = last'.config

=============================================================================
